---------------------------- MODULE Spec2Model ----------------------------
(***************************************************************************)
(* Model of the price-spike alert throttle (multi_threshold_alerts.py) and *)
(* of the layered duplicate check of the announcement monitor              *)
(* (enhanced_bse_deduplication.py, enhanced_bse_endpoint.py).              *)
(*                                                                         *)
(* Python strings are strings; an f-string is a concatenation (\o) and     *)
(* s[i:j] a SubSeq.                                                        *)
(* Percentages are integers in tenths of a percent (120 is 12.0%).         *)
(* Times are seconds; the clock starts at 2025-03-15 00:00:00 local time.  *)
(***************************************************************************)
EXTENDS Integers, Sequences, FiniteSets, Bags, TLC

VARIABLES
    \* ---- MultiThresholdAlertTracker ----
    daily_tracker,      \* self._daily_tracker: tracking key -> set of alert types
    last_cleanup,       \* self._last_cleanup
    clock,              \* datetime.now() of the tracker's process
    daily_alerts_sent,  \* table daily_alerts_sent: a bag of rows
    last_call,          \* the last should_send_alert call and its answer, if any
    pending,            \* the should-send = true answer not yet marked, if any
    protocol_ok,        \* every should-send = true was marked before the next call
    fired,              \* tuples for which should_send_alert returned true
    refired,            \* it returned true again for a tuple already in fired
    between,            \* operations since the last should_send_alert call
    classify_pct,       \* the price change handed to _get_threshold_level
    threshold_level,    \* what _get_threshold_level returned for it, once called
    threads,            \* the check-then-record sequence of each thread of the process
    \* ---- EnhancedBSEDeduplication and the monitoring pass ----
    seen_announcements, \* table seen_announcements: rows in insertion order
    dedup_clock,        \* datetime.now() of the monitoring pass
    monitored,          \* the (user, announcement) pairs the passes of this run process
    pass_times,         \* the moments the passes of this run take place at
    phase,              \* position in the per-announcement loop body of the pass
    chk,                \* the is_announcement_already_sent call being acted on, if any
    pass_queue,         \* the (user, announcement) pairs the running pass has yet to process
    notifications_sent, \* notifications_sent of the announcement being processed
    send_raised,        \* the except clause around its send block ran
    marked,             \* marked: what mark_announcement_sent returned for it
    totals,             \* totals of the running pass: the two counts of its outcomes
    \* ---- two instances of the monitoring pass at once ----
    workers,            \* the loop body each worker is in, for one (user, announcement)
    \* ---- the user loop of one monitoring pass ----
    run,                \* position, remaining users and announcements, totals, errors, response
    \* ---- content signatures and the grouping of a user batch ----
    content_signature,  \* the headline handed to generate_content_signature and the result
    grouping,           \* the batch handed to the grouping and what came out of it
    \* ---- the send block of one announcement ----
    send,               \* the announcement handed to the send block and the calls it made
    \* ---- the queries of the tracker ----
    last_query          \* the last query of the tracker's cache and its answer, if any

cacheVars == <<daily_tracker, last_cleanup, clock, daily_alerts_sent, last_call,
               pending, protocol_ok, fired, refired, between>>

classifyVars == <<classify_pct, threshold_level>>

trackerVars == <<cacheVars, classifyVars, threads>>

passVars == <<pass_queue, notifications_sent, send_raised, marked, totals>>

dedupVars == <<seen_announcements, dedup_clock, monitored, pass_times, phase, chk,
               passVars>>

workerVars == <<workers>>

runVars == <<run>>

groupingVars == <<content_signature, grouping>>

sendVars == <<send>>

queryVars == <<last_query>>

extraVars == <<workerVars, runVars, groupingVars, sendVars, queryVars>>

vars == <<trackerVars, dedupVars, extraVars>>

\* the workers that can run the monitoring pass at the same time
Workers == {"w1", "w2"}

InitWorkerVars == workers = [w \in Workers |-> [pc |-> "idle"]]

InitRunVars == run = [pc |-> "idle"]

InitGroupingVars == content_signature = [pc |-> "idle"] /\ grouping = [pc |-> "idle"]

InitSendVars == send = [pc |-> "idle"]

InitQueryVars == last_query = <<>>

InitExtraVars ==
    InitWorkerVars /\ InitRunVars /\ InitGroupingVars /\ InitSendVars /\ InitQueryVars

\* the announcement monitor before its first pass, which has the pairs m to
\* process in passes at the moments times
InitDedupVars(m, times) ==
    /\ seen_announcements = <<>>
    /\ dedup_clock = 0
    /\ monitored = m
    /\ pass_times = times
    /\ phase = "idle"
    /\ chk = <<>>
    /\ pass_queue = <<>>
    /\ notifications_sent = 0
    /\ send_raised = FALSE
    /\ marked = FALSE
    /\ totals = [duplicates_prevented |-> 0, database_errors |-> 0]

-----------------------------------------------------------------------------
(* Strings *)

\* s[i], the i-th character of a string (counted from 1)
Char(s, i) == SubSeq(s, i, i)

Range(s) == {s[i] : i \in 1..Len(s)}

\* str.startswith
StartsWith(s, p) == Len(s) >= Len(p) /\ SubSeq(s, 1, Len(p)) = p

\* str.split(sep) for a one-character separator
RECURSIVE SplitFrom(_, _, _, _)
SplitFrom(s, sep, i, cur) ==
    IF i > Len(s) THEN <<cur>>
    ELSE IF Char(s, i) = sep THEN <<cur>> \o SplitFrom(s, sep, i + 1, "")
    ELSE SplitFrom(s, sep, i + 1, cur \o Char(s, i))

Split(s, sep) == SplitFrom(s, sep, 1, "")

Digit(n) ==
    CASE n = 0 -> "0" [] n = 1 -> "1" [] n = 2 -> "2" [] n = 3 -> "3" [] n = 4 -> "4"
      [] n = 5 -> "5" [] n = 6 -> "6" [] n = 7 -> "7" [] n = 8 -> "8" [] n = 9 -> "9"

\* str(n) for a natural number
RECURSIVE IntStr(_)
IntStr(n) == IF n < 10 THEN Digit(n) ELSE IntStr(n \div 10) \o Digit(n % 10)

\* a number as two digits, as in the day of a date
TwoDigits(n) == Digit(n \div 10) \o Digit(n % 10)

-----------------------------------------------------------------------------
(* MultiThresholdAlertTracker: inputs *)

UserIds == {"u1", "u2"}

BseCodes == {"500325"}

\* price changes, in tenths of a percent: +4.0, +12.0
PriceChanges == {40, 120}

\* the instruments and the price changes of the calls that walk the ladder:
\* +7.0, +12.0, -12.0
LadderCodes == {"500325", "532540"}

LadderChanges == {70, 120, -120}

\* the instants at which the tracker's process is observed
ClockPoints == {0, 1800, 84600, 86400}

\* rows daily_alerts_sent may hold
MaxAlertRows == 2

-----------------------------------------------------------------------------
(* MultiThresholdAlertTracker *)

\* self.thresholds, in tenths of a percent
thresholds == <<50, 100, 150, 200>>

\* self._cleanup_interval
cleanup_interval == 3600

\* date.today().isoformat() at the clock times of the inputs, computed once;
\* second 0 is 2025-03-15 00:00:00
IsoDate == [t \in ClockPoints |-> "2025-03-" \o TwoDigits(15 + (t \div 86400))]

\* date.today().isoformat() at clock time t
isoformat(t) == IsoDate[t]

get_tracking_key(user_id, bse_code, alert_date) ==
    user_id \o "_" \o bse_code \o "_" \o alert_date

\* the tracking keys the inputs give
TrackingKeys ==
    {get_tracking_key(user_id, bse_code, isoformat(t)) :
        user_id \in UserIds, bse_code \in BseCodes \cup LadderCodes, t \in ClockPoints}

\* key.split('_'), computed once for each of them
SplitKey == [key \in TrackingKeys |-> Split(key, "_")]

\* the date _cleanup_old_entries reads back from a tracking key
key_date(key) ==
    LET parts == SplitKey[key]
    IN  parts[Len(parts) - 1] \o "_" \o parts[Len(parts)]

\* the keys _cleanup_old_entries removes
keys_to_remove(tracker, today) ==
    {key \in DOMAIN tracker : Len(SplitKey[key]) >= 3 /\ key_date(key) # today}

\* _cleanup_old_entries without the test of the interval
cleanup_old_entries_every_call(tracker, last, now) ==
    [tracker |-> [key \in DOMAIN tracker \ keys_to_remove(tracker, isoformat(now))
                     |-> tracker[key]],
     last_cleanup |-> now, ran |-> TRUE]

\* _cleanup_old_entries: the tracker and the last-cleanup time after it
cleanup_old_entries(tracker, last, now) ==
    IF now - last < cleanup_interval
    THEN [tracker |-> tracker, last_cleanup |-> last, ran |-> FALSE]
    ELSE [tracker |-> [key \in DOMAIN tracker \ keys_to_remove(tracker, isoformat(now))
                          |-> tracker[key]],
          last_cleanup |-> now, ran |-> TRUE]

Abs(x) == IF x < 0 THEN -x ELSE x

Max(S) == CHOOSE x \in S : \A y \in S : y <= x

\* _get_threshold_level with abs_change > threshold
get_threshold_level_exclusive(price_change_pct) ==
    LET crossed == {t \in Range(thresholds) : Abs(price_change_pct) > t}
    IN  IF crossed = {} THEN <<>> ELSE <<Max(crossed)>>

\* _get_threshold_level: <<>> is None
get_threshold_level(price_change_pct) ==
    LET crossed == {t \in Range(thresholds) : Abs(price_change_pct) >= t}
    IN  IF crossed = {} THEN <<>> ELSE <<Max(crossed)>>

\* str(int(threshold)) for the thresholds, computed once; int() drops the tenths
IntThreshold == [t \in Range(thresholds) |-> IntStr(t \div 10)]

\* _get_alert_type naming the direction only
get_alert_type_direction_only(price_change_pct, threshold) ==
    "price_" \o (IF price_change_pct > 0 THEN "up" ELSE "down")

\* _get_alert_type
get_alert_type(price_change_pct, threshold) ==
    "price_" \o (IF price_change_pct > 0 THEN "up" ELSE "down")
        \o "_" \o IntThreshold[threshold] \o "pct"

\* a row of daily_alerts_sent
AlertRow(user_id, bse_code, alert_date, alert_type) ==
    [user_id |-> user_id, bse_code |-> bse_code,
     alert_date |-> alert_date, alert_type |-> alert_type]

\* _has_sent_db_alert finding no row, whatever the table holds
has_sent_db_alert_never(db, user_id, bse_code, alert_type, alert_date, db_ok) == FALSE

\* _has_sent_db_alert with a failed query answering True
has_sent_db_alert_fail_closed(db, user_id, bse_code, alert_type, alert_date, db_ok) ==
    IF db_ok THEN CopiesIn(AlertRow(user_id, bse_code, alert_date, alert_type), db) > 0
    ELSE TRUE

\* _has_sent_db_alert: a failed query is swallowed and answers False
has_sent_db_alert(db, user_id, bse_code, alert_type, alert_date, db_ok) ==
    IF db_ok THEN CopiesIn(AlertRow(user_id, bse_code, alert_date, alert_type), db) > 0
    ELSE FALSE

\* the memory write left out
mark_alert_sent_memory_dropped(tracker, user_id, bse_code, alert_date, alert_type) ==
    tracker

\* _mark_alert_sent_memory
mark_alert_sent_memory(tracker, user_id, bse_code, alert_date, alert_type) ==
    LET key == get_tracking_key(user_id, bse_code, alert_date)
        old == IF key \in DOMAIN tracker THEN tracker[key] ELSE {}
    IN  [k \in DOMAIN tracker \cup {key} |->
            IF k = key THEN old \cup {alert_type} ELSE tracker[k]]

\* _mark_alert_sent_db: a failed insert is logged and dropped
mark_alert_sent_db(db, user_id, bse_code, alert_type, alert_date, db_ok) ==
    IF db_ok THEN db (+) SetToBag({AlertRow(user_id, bse_code, alert_date, alert_type)})
    ELSE db

InCache(tracker, user_id, bse_code, alert_date, alert_type) ==
    LET key == get_tracking_key(user_id, bse_code, alert_date)
    IN  key \in DOMAIN tracker /\ alert_type \in tracker[key]

\* should_send_alert after its cleanup: the answer and the tracker it leaves
should_send_alert(tracker, db, user_id, bse_code, price_change_pct, current_date, db_ok) ==
    LET threshold == get_threshold_level(price_change_pct)
    IN  IF threshold = <<>>
        THEN [should_send |-> FALSE, threshold |-> <<>>, reason |-> "no_threshold",
              tracker |-> tracker]
        ELSE
        LET alert_type == get_alert_type(price_change_pct, threshold[1])
        IN  IF InCache(tracker, user_id, bse_code, current_date, alert_type)
            THEN [should_send |-> FALSE, threshold |-> threshold,
                  reason |-> "already_sent_" \o alert_type, tracker |-> tracker]
            ELSE IF has_sent_db_alert(db, user_id, bse_code, alert_type, current_date, db_ok)
            THEN [should_send |-> FALSE, threshold |-> threshold,
                  reason |-> "db_duplicate_" \o alert_type,
                  tracker |-> mark_alert_sent_memory(tracker, user_id, bse_code,
                                                     current_date, alert_type)]
            ELSE [should_send |-> TRUE, threshold |-> threshold, reason |-> alert_type,
                  tracker |-> tracker]

\* the (user, instrument, day, direction and threshold) tuple of an alert
AlertTuple(user_id, bse_code, alert_date, alert_type) ==
    <<user_id, bse_code, alert_date, alert_type>>

\* the tracker as constructed, the table holding the rows db
InitCacheVars(db) ==
    /\ daily_tracker = <<>>
    /\ last_cleanup = 0
    /\ clock = 0
    /\ daily_alerts_sent = db
    /\ last_call = <<>>
    /\ pending = <<>>
    /\ protocol_ok = TRUE
    /\ fired = {}
    /\ refired = FALSE
    /\ between = {}

InitClassifyVars(pct) ==
    /\ classify_pct = pct
    /\ threshold_level = <<>>

\* the threads that serve requests in the tracker's process
Threads == {"t1", "t2"}

InitThreads == threads = [t \in Threads |-> [pc |-> "idle"]]

InitTrackerVars == InitCacheVars(EmptyBag) /\ InitClassifyVars(0) /\ InitThreads

\* what daily_alerts_sent holds when the process starts: nothing, or a row
\* another process or this one before a restart wrote today
PersistedAtStart ==
    {EmptyBag, SetToBag({AlertRow("u1", "500325", isoformat(0), "price_up_10pct")})}

InitTracker ==
    /\ \E db \in PersistedAtStart : InitCacheVars(db)
    /\ InitClassifyVars(0)
    /\ InitThreads
    /\ InitDedupVars({}, {})
    /\ InitExtraVars

\* should_send_alert(user_client, user_id, bse_code, price_change_pct)
ShouldSendAlert(user_id, bse_code, price_change_pct, db_ok) ==
    LET current_date == isoformat(clock)
        cleaned == cleanup_old_entries(daily_tracker, last_cleanup, clock)
        r == should_send_alert(cleaned.tracker, daily_alerts_sent, user_id, bse_code,
                               price_change_pct, current_date, db_ok)
        answer == [should_send |-> r.should_send, threshold |-> r.threshold,
                   reason |-> r.reason]
        tuple == AlertTuple(user_id, bse_code, current_date, r.reason)
        fresh == /\ r.threshold # <<>>
                 /\ LET at == get_alert_type(price_change_pct, r.threshold[1])
                    IN  /\ ~InCache(daily_tracker, user_id, bse_code, current_date, at)
                        /\ CopiesIn(AlertRow(user_id, bse_code, current_date, at),
                                    daily_alerts_sent) = 0
        same == /\ last_call # <<>>
                /\ last_call[1].user_id = user_id
                /\ last_call[1].bse_code = bse_code
                /\ last_call[1].price_change_pct = price_change_pct
        call == [user_id |-> user_id, bse_code |-> bse_code,
                 price_change_pct |-> price_change_pct, date |-> current_date,
                 ret |-> answer, fresh |-> fresh, evicted |-> cleaned.ran,
                 since |-> IF same THEN between ELSE {},
                 prev |-> IF same
                          THEN <<[ret |-> last_call[1].ret, fresh |-> last_call[1].fresh,
                                  date |-> last_call[1].date]>>
                          ELSE <<>>]
    IN  /\ daily_tracker' = r.tracker
        /\ last_cleanup' = cleaned.last_cleanup
        /\ last_call' = <<call>>
        /\ protocol_ok' = (protocol_ok /\ pending = <<>>)
        /\ pending' = IF r.should_send
                      THEN <<[user_id |-> user_id, bse_code |-> bse_code,
                              price_change_pct |-> price_change_pct,
                              threshold |-> r.threshold[1]]>>
                      ELSE pending
        /\ fired' = IF r.should_send THEN fired \cup {tuple} ELSE fired
        /\ refired' = (refired \/ (r.should_send /\ tuple \in fired))
        /\ between' = {}
        /\ UNCHANGED <<clock, daily_alerts_sent, classifyVars, threads, dedupVars, extraVars>>

\* mark_alert_sent(user_client, user_id, bse_code, price_change_pct, threshold),
\* called for the answer that said should-send
MarkAlertSent(db_ok) ==
    /\ pending # <<>>
    /\ LET p == pending[1]
           current_date == isoformat(clock)
           alert_type == get_alert_type(p.price_change_pct, p.threshold)
       IN  /\ db_ok => BagCardinality(daily_alerts_sent) < MaxAlertRows
           /\ daily_tracker' = mark_alert_sent_memory(daily_tracker, p.user_id, p.bse_code,
                                                      current_date, alert_type)
           /\ daily_alerts_sent' = mark_alert_sent_db(daily_alerts_sent, p.user_id,
                                        p.bse_code, alert_type, current_date, db_ok)
    /\ pending' = <<>>
    /\ between' = between \cup {"mark_alert_sent"}
    /\ UNCHANGED <<last_cleanup, clock, last_call, protocol_ok, fired, refired,
                   classifyVars, threads, dedupVars, extraVars>>

\* time passes in the tracker's process
TrackerTick ==
    /\ \E t \in ClockPoints : t > clock /\ clock' = t
    /\ between' = between \cup {"tick"}
    \* a tuple of an earlier day cannot come up again: it is dropped from the record
    /\ fired' = {tuple \in fired : tuple[3] = isoformat(clock')}
    /\ UNCHANGED <<daily_tracker, last_cleanup, daily_alerts_sent, last_call, pending,
                   protocol_ok, refired, classifyVars, threads, dedupVars, extraVars>>

NextTracker ==
    \/ \E user_id \in UserIds, bse_code \in BseCodes, pct \in PriceChanges,
          db_ok \in BOOLEAN : ShouldSendAlert(user_id, bse_code, pct, db_ok)
    \/ \E db_ok \in BOOLEAN : MarkAlertSent(db_ok)
    \/ TrackerTick

TrackerSpec == InitTracker /\ [][NextTracker]_vars

-----------------------------------------------------------------------------
(* Claims about the alert throttle *)

\* the alert types the price changes lead to
AlertTypes ==
    {get_alert_type(pct, get_threshold_level(pct)[1]) :
        pct \in {p \in PriceChanges : get_threshold_level(p) # <<>>}}

\* (true, 10, "price_up_10pct")
AnswerSendUp10 ==
    [should_send |-> TRUE, threshold |-> <<100>>, reason |-> "price_up_10pct"]

\* (false, 10, "already_sent_price_up_10pct")
AnswerAlreadySentUp10 ==
    [should_send |-> FALSE, threshold |-> <<100>>,
     reason |-> "already_sent_" \o "price_up_10pct"]

\* C1: as long as every should-send = true answer was followed by mark_alert_sent
\* before the next call, should_send_alert has answered true at most once for each
\* (user, instrument, day, direction, threshold) tuple, whatever evictions and
\* persistence failures happened.
C1_AtMostOncePerTuple == protocol_ok => ~refired

\* The last call repeats the call before it: same user, instrument and +12.0,
\* and the tuple had not been alerted when the first of the two was made.
RepeatedCallUp10 ==
    /\ last_call # <<>>
    /\ last_call[1].prev # <<>>
    /\ last_call[1].price_change_pct = 120
    /\ last_call[1].prev[1].fresh

\* C2 as stated: two calls in succession with nothing in between answer
\* (true, 10, "price_up_10pct") and then (false, 10, "already_sent_...").
C2_TwiceInSuccession ==
    (RepeatedCallUp10 /\ last_call[1].since = {}) =>
        /\ last_call[1].prev[1].ret = AnswerSendUp10
        /\ ~last_call[1].ret.should_send
        /\ last_call[1].ret.threshold = <<100>>
        /\ StartsWith(last_call[1].ret.reason, "already_sent_")

\* The second of two equal calls, made the same day after mark_alert_sent and
\* without running an eviction itself.
MarkedBetween ==
    /\ RepeatedCallUp10
    /\ "mark_alert_sent" \in last_call[1].since
    /\ ~last_call[1].evicted
    /\ last_call[1].date = last_call[1].prev[1].date

\* C2 amended: with mark_alert_sent between the two calls, and the second call made
\* the same day before the next eviction is due, the answers are
\* (true, 10, "price_up_10pct") and then (false, 10, "already_sent_price_up_10pct").
C2_TwiceWithMarkBetween ==
    MarkedBetween =>
        /\ last_call[1].prev[1].ret = AnswerSendUp10
        /\ last_call[1].ret = AnswerAlreadySentUp10

C2_Witness == MarkedBetween /\ last_call[1].ret = AnswerAlreadySentUp10

\* C3: an alert type recorded in the cache for (user, instrument, today) is still
\* recorded after every step that leaves the calendar day unchanged.
C3_SentStaysSent ==
    [][\A user_id \in UserIds, bse_code \in BseCodes, alert_type \in AlertTypes :
          (/\ InCache(daily_tracker, user_id, bse_code, isoformat(clock), alert_type)
           /\ isoformat(clock') = isoformat(clock))
          => InCache(daily_tracker', user_id, bse_code, isoformat(clock), alert_type)]_vars

-----------------------------------------------------------------------------
(* Strings of the announcement monitor *)

\* whitespace that str.strip() removes
IsSpace(c) == c \in {" ", "\t", "\n", "\r"}

LowerChar(c) ==
    CASE c = "A" -> "a" [] c = "B" -> "b" [] c = "C" -> "c" [] c = "D" -> "d"
      [] c = "E" -> "e" [] c = "F" -> "f" [] c = "G" -> "g" [] c = "H" -> "h"
      [] c = "I" -> "i" [] c = "J" -> "j" [] c = "K" -> "k" [] c = "L" -> "l"
      [] c = "M" -> "m" [] c = "N" -> "n" [] c = "O" -> "o" [] c = "P" -> "p"
      [] c = "Q" -> "q" [] c = "R" -> "r" [] c = "S" -> "s" [] c = "T" -> "t"
      [] c = "U" -> "u" [] c = "V" -> "v" [] c = "W" -> "w" [] c = "X" -> "x"
      [] c = "Y" -> "y" [] c = "Z" -> "z" [] OTHER -> c

\* str.lower()
RECURSIVE lower(_)
lower(s) == IF s = "" THEN "" ELSE LowerChar(Char(s, 1)) \o lower(Tail(s))

RECURSIVE lstrip(_)
lstrip(s) == IF s # "" /\ IsSpace(Char(s, 1)) THEN lstrip(Tail(s)) ELSE s

RECURSIVE rstrip(_)
rstrip(s) ==
    IF s # "" /\ IsSpace(Char(s, Len(s))) THEN rstrip(SubSeq(s, 1, Len(s) - 1)) ELSE s

\* str.strip()
strip(s) == rstrip(lstrip(s))

\* s[:n]
Prefix(s, n) == SubSeq(s, 1, IF Len(s) < n THEN Len(s) ELSE n)

\* sub in s
Contains(s, sub) ==
    \E i \in 1..(Len(s) - Len(sub) + 1) : SubSeq(s, i, i + Len(sub) - 1) = sub

\* any(term in h for term in terms)
AnyIn(terms, h) == \E i \in DOMAIN terms : Contains(h, terms[i])

\* SQL LIKE: % matches any run of characters, _ any one character, anything
\* else itself, case-sensitively; s from position i against p from position j
RECURSIVE LikeFrom(_, _, _, _)
LikeFrom(s, p, i, j) ==
    IF j > Len(p) THEN i > Len(s)
    ELSE IF Char(p, j) = "%" THEN \E k \in i..(Len(s) + 1) : LikeFrom(s, p, k, j + 1)
    ELSE /\ i <= Len(s)
         /\ Char(p, j) = "_" \/ Char(p, j) = Char(s, i)
         /\ LikeFrom(s, p, i + 1, j + 1)

Like(s, p) == LikeFrom(s, p, 1, 1)

\* ann_dt.strftime('%Y-%m-%d %H:%M:%S') for an announcement time given as the
\* hour of 2025-03-15 it was published at
strftime(ann_dt) == "2025-03-15 " \o TwoDigits(ann_dt) \o ":00:00"

-----------------------------------------------------------------------------
(* The announcement monitor: inputs *)

H_board  == "Board Meeting Intimation"
H_fin    == "Financial Results for the quarter ended 31 December 2024"
H_div    == "Dividend declared"
H_appt   == "Appointment of Company Secretary and Compliance Officer"
\* H_appt without its last letter: the same first 50 characters
H_appt_b == "Appointment of Company Secretary and Compliance Office"
H_allot  == "Allotment of Equity Shares"

Announcement(news_id, scrip_code, headline, category, ann_dt) ==
    [news_id |-> news_id, scrip_code |-> scrip_code, headline |-> headline,
     category |-> category, ann_dt |-> ann_dt]

A_board      == Announcement("N1", "500325", H_board, "Board Meeting", 10)
\* N1 published again under another headline
A_board_div  == Announcement("N1", "500325", H_div, "Corp. Action", 10)
A_fin        == Announcement("N2", "500325", H_fin, "Result", 11)
\* the headline of A_board on another instrument
A_board2     == Announcement("N3", "532540", H_board, "Board Meeting", 10)
A_appt       == Announcement("N4", "500325", H_appt, "Company Update", 12)
\* A_appt under a new identifier, the category in another case
A_appt_cat   == Announcement("N5", "500325", H_appt, "COMPANY UPDATE", 12)
\* ... published an hour later
A_appt_date  == Announcement("N6", "500325", H_appt, "Company Update", 13)
\* ... the headline differing after its 50th character
A_appt_b     == Announcement("N7", "500325", H_appt_b, "Company Update", 12)
\* ... the headline followed by a space
A_appt_sp    == Announcement("N8", "500325", H_appt \o " ", "Company Update", 12)
A_allot      == Announcement("N9", "500325", H_allot, "Others", 12)

\* what a run has to process: result-related announcements of one instrument
\* and of another, one of them monitored by a second user too
Feed_results ==
    ({"u1"} \X {A_board, A_board_div, A_fin, A_board2}) \cup {<<"u2", A_board>>}

\* one announcement and its near-copies
Feed_copies == {"u1"} \X {A_appt, A_appt_cat, A_appt_date, A_appt_sp}

\* four announcements of one instrument that differ from each other
Feed_burst == {"u1"} \X {A_appt, A_appt_date, A_appt_b, A_allot}

\* two users monitoring the same instrument
Feed_users == {"u1", "u2"} \X {A_appt, A_appt_cat}

Feeds == {Feed_results, Feed_copies, Feed_burst, Feed_users}

\* a second financial result of the instrument of A_fin
H_fin2 == "Unaudited Financial Results for the half year ended 30 September 2024"

A_fin2 == Announcement("N10", "500325", H_fin2, "Result", 11)

\* a board meeting and two financial results of one instrument
Feed_cooling == {"u1"} \X {A_board, A_fin, A_fin2}

\* the feeds of the runs of a single worker with storage working
LedgerFeeds == {Feed_burst, Feed_cooling}

\* the moments, in seconds, the passes over each feed take place at.
\* Results: 2 hours after the first pass and 167 hours after the second,
\* inside the week and outside the 3 hours.
\* Copies: 7 hours after the first, and more than 24 hours after both.
\* Burst: 2 minutes after the first, and 7 hours after.
\* Users: 7 hours after the first, outside the 6 hours.
PassTimes ==
    [feed \in Feeds |->
        CASE feed = Feed_results -> {0, 7200, 608400}
          [] feed = Feed_copies -> {0, 25200, 608400}
          [] feed = Feed_burst -> {0, 120, 25200}
          [] feed = Feed_users -> {0, 25200}]

Headlines == {p[2].headline : p \in UNION (Feeds \cup LedgerFeeds)}

Categories == {p[2].category : p \in UNION Feeds}

\* the announcement times of the inputs and their date strings
AnnTimes == {p[2].ann_dt : p \in UNION Feeds}

AnnDates == {strftime(ann_dt) : ann_dt \in AnnTimes}

\* the storage queries of one duplicate check, in the order the code issues
\* them: 1 cooling period, 2 exact identifier, 3 content, 4 other users, 5 burst
Queries == 1..5

\* the queries that raise during one check: none, one of them, or all (outage)
FailureModes == {{}} \cup {{q} : q \in Queries} \cup {Queries}

MaxLedger == 3
-----------------------------------------------------------------------------
(* EnhancedBSEDeduplication *)

result_indicators ==
    <<"financial results", "quarter ended", "half year ended", "year ended",
      "quarterly results", "unaudited results", "audited results",
      "board meeting", "profit", "loss", "revenue", "dividend">>

financial_terms == <<"financial results", "quarter ended", "half year ended">>

\* any(indicator in h for indicator in result_indicators) with h the headline
\* in lower case, computed once for each headline of the inputs
ResultRelated == [headline \in Headlines |-> AnyIn(result_indicators, lower(headline))]

is_result_related(headline) == ResultRelated[headline]

\* any(term in h for term in [...])
FinancialResult == [headline \in Headlines |-> AnyIn(financial_terms, lower(headline))]

is_financial_result(headline) == FinancialResult[headline]

\* the window of a result that is not a financial result, for every headline
cooling_hours_always_3(headline) == 3

cooling_hours(headline) == IF is_financial_result(headline) THEN 24 * 7 ELSE 3

cooling_type(headline) ==
    IF is_financial_result(headline) THEN "financial_results_week" ELSE "result_3_hours"

\* .gte('created_at', (datetime.now() - timedelta(hours)).isoformat())
gte_hours_ago(row, t, hours) == row.created_at >= t - hours * 3600

\* .gte('created_at', (datetime.now() - timedelta(minutes)).isoformat())
gte_minutes_ago(row, t, minutes) == row.created_at >= t - minutes * 60

\* is_result_notification_in_cooling_period(sb, user_id, scrip_code, headline,
\* category) on the table sa at time t; query_ok is whether its query succeeds.
\* queried tells whether the query was issued.
is_result_notification_in_cooling_period(sa, t, user_id, scrip_code, headline, query_ok) ==
    IF ~is_result_related(headline)
    THEN [is_cooling |-> FALSE, reason |-> "not_result_related", queried |-> FALSE]
    ELSE IF ~query_ok
    THEN [is_cooling |-> FALSE, reason |-> "cooling_check_failed", queried |-> TRUE]
    ELSE LET recent == SelectSeq(sa, LAMBDA r :
                           /\ r.user_id = user_id
                           /\ r.scrip_code = scrip_code
                           /\ gte_hours_ago(r, t, cooling_hours(headline)))
         IN  IF \E i \in DOMAIN recent : is_result_related(recent[i].headline)
             THEN [is_cooling |-> TRUE,
                   reason |-> "cooling_period_" \o cooling_type(headline),
                   queried |-> TRUE]
             ELSE [is_cooling |-> FALSE, reason |-> "outside_cooling_period",
                   queried |-> TRUE]

\* database.db_seen_announcement_exists(sb, user_id, news_id): a row of this
\* user with this identifier exists
db_seen_announcement_exists(sa, user_id, news_id) ==
    \E i \in DOMAIN sa : sa[i].user_id = user_id /\ sa[i].news_id = news_id

\* .like('headline', f"%{headline.strip()[:50]}%") on a stored headline,
\* computed once for each pair of headlines of the inputs
LikeSimilarHeadline ==
    [stored \in Headlines |-> [headline \in Headlines |->
        Like(stored, "%" \o Prefix(strip(headline), 50) \o "%")]]

\* existing_headline.lower() == headline.lower(), existing_headline being
\* the stored headline stripped
SameHeadline ==
    [stored \in Headlines |-> [headline \in Headlines |->
        lower(strip(stored)) = lower(headline)]]

\* existing_category.lower() == category.lower()
SameCategory ==
    [stored \in Categories |-> [category \in Categories |->
        lower(strip(stored)) = lower(category)]]

\* the content query without its filter on the user
similar_headline_rows_any_user(sa, t, user_id, scrip_code, headline) ==
    SelectSeq(sa, LAMBDA r :
        /\ r.scrip_code = scrip_code
        /\ LikeSimilarHeadline[r.headline][headline]
        /\ gte_hours_ago(r, t, 24))

\* existing_ann_dt == ann_dt_str, existing_ann_dt being the stored date
\* string stripped
SameDate ==
    [stored \in AnnDates |-> [ann_dt_str \in AnnDates |-> strip(stored) = ann_dt_str]]

\* the rows the content query returns
similar_headline_rows(sa, t, user_id, scrip_code, headline) ==
    SelectSeq(sa, LAMBDA r :
        /\ r.user_id = user_id
        /\ r.scrip_code = scrip_code
        /\ LikeSimilarHeadline[r.headline][headline]
        /\ gte_hours_ago(r, t, 24))

\* the comparison of key fields, without the date
same_content_no_date(record, headline, ann_dt_str, category) ==
    /\ SameHeadline[record.headline][headline]
    /\ SameCategory[record.category][category]

\* the comparison of key fields of a returned row with the new announcement
same_content(record, headline, ann_dt_str, category) ==
    /\ SameHeadline[record.headline][headline]
    /\ SameDate[record.ann_date][ann_dt_str]
    /\ SameCategory[record.category][category]

\* the rows of the content query that pass the comparison
content_matches(sa, t, user_id, scrip_code, headline, ann_dt_str, category) ==
    SelectSeq(similar_headline_rows(sa, t, user_id, scrip_code, headline),
              LAMBDA r : same_content(r, headline, ann_dt_str, category))

\* the rows the other-users query returns, for a window of 24 hours
global_response_day(sa, t, news_id) ==
    SelectSeq(sa, LAMBDA r : r.news_id = news_id /\ gte_hours_ago(r, t, 24))

\* the rows the other-users query returns, whatever their identifier
global_response_any_identifier(sa, t, news_id) ==
    SelectSeq(sa, LAMBDA r : gte_hours_ago(r, t, 6))

\* the rows the other-users query returns
global_response(sa, t, news_id) ==
    SelectSeq(sa, LAMBDA r : r.news_id = news_id /\ gte_hours_ago(r, t, 6))

\* the rows the burst query returns
recent_response(sa, t, user_id, scrip_code) ==
    SelectSeq(sa, LAMBDA r :
        /\ r.user_id = user_id
        /\ r.scrip_code = scrip_code
        /\ gte_minutes_ago(r, t, 5))

\* the burst test with the limit one higher
too_many_recent_above_3(recent) == Len(recent) > 3

\* len(recent_response.data) > 2
too_many_recent(recent) == Len(recent) > 2

\* the exact-identifier layer left out
exact_match_skipped(sa, user_id, news_id) == FALSE

\* the exact-identifier layer of is_announcement_already_sent
exact_match(sa, user_id, news_id) == db_seen_announcement_exists(sa, user_id, news_id)

\* what the except clause of the cooling check returns, failing closed
cooling_except_fail_closed(answer) ==
    IF answer.reason = "cooling_check_failed"
    THEN [answer EXCEPT !.is_cooling = TRUE]
    ELSE answer

\* the answer of the cooling check as is_announcement_already_sent receives it
cooling_answer(answer) == answer

\* is_announcement_already_sent(sb, user_id, news_id, headline, company_name,
\* ann_dt, category, scrip_code) on the table sa at time t, the queries in
\* failing raising.  company_name only enters a content hash that is not
\* used.  The answer is (already_sent, reason); issued lists the queries the
\* call issued and failed those of them that raised.
is_announcement_already_sent(sa, t, user_id, ann, failing) ==
    LET ann_dt_str == strftime(ann.ann_dt)
        cooling == cooling_answer(is_result_notification_in_cooling_period(
                       sa, t, user_id, ann.scrip_code, ann.headline, 1 \notin failing))
        q1 == IF cooling.queried THEN <<1>> ELSE <<>>
        f1 == IF cooling.reason = "cooling_check_failed" THEN {1} ELSE {}
        Answer(already_sent, reason, issued) ==
            [already_sent |-> already_sent, reason |-> reason,
             issued |-> q1 \o issued, failed |-> f1]
        \* the outer except clause
        Raised(issued) ==
            [already_sent |-> FALSE, reason |-> "database_check_failed",
             issued |-> q1 \o issued, failed |-> f1 \cup {issued[Len(issued)]}]
        matches == content_matches(sa, t, user_id, ann.scrip_code, ann.headline,
                                   ann_dt_str, ann.category)
        other_users == global_response(sa, t, ann.news_id)
        recent == recent_response(sa, t, user_id, ann.scrip_code)
    IN  IF cooling.is_cooling
        THEN Answer(TRUE, "cooling_period_" \o cooling.reason, <<>>)
        ELSE IF 2 \in failing THEN Raised(<<2>>)
        ELSE IF exact_match(sa, user_id, ann.news_id)
        THEN Answer(TRUE, "exact_match_existing_table", <<2>>)
        ELSE IF 3 \in failing THEN Raised(<<2, 3>>)
        ELSE IF matches # <<>>
        THEN Answer(TRUE, "content_match_" \o IntStr(matches[1].created_at), <<2, 3>>)
        ELSE IF 4 \in failing THEN Raised(<<2, 3, 4>>)
        ELSE IF other_users # <<>>
        THEN Answer(TRUE, "sent_to_other_users_" \o IntStr(Len(other_users)),
                    <<2, 3, 4>>)
        ELSE IF 5 \in failing THEN Raised(<<2, 3, 4, 5>>)
        ELSE IF too_many_recent(recent)
        THEN Answer(TRUE, "rate_limiting_protection", <<2, 3, 4, 5>>)
        ELSE Answer(FALSE, "no_duplicate_found", <<2, 3, 4, 5>>)

\* database.db_save_seen_announcement(sb, user_id, news_id, scrip_code,
\* headline, pdf_name, ann_dt_str, caption, category): appends a delivery
\* record with the values as given, created_at being the time of the insert
db_save_seen_announcement(sa, t, user_id, news_id, scrip_code, headline, ann_dt_str, category) ==
    Append(sa, [user_id |-> user_id, news_id |-> news_id, scrip_code |-> scrip_code,
                headline |-> headline, ann_date |-> ann_dt_str, category |-> category,
                created_at |-> t])

\* mark_announcement_sent answering True also when the insert failed
mark_announcement_sent_unreported(sa, t, user_id, ann, insert_ok) ==
    IF insert_ok
    THEN [marked |-> TRUE,
          seen_announcements |->
              db_save_seen_announcement(sa, t, user_id, ann.news_id, ann.scrip_code,
                                        ann.headline, strftime(ann.ann_dt),
                                        ann.category)]
    ELSE [marked |-> TRUE, seen_announcements |-> sa]

\* the delivery records of (user_id, news_id) in the table sa
RecordsOf(sa, user_id, news_id) ==
    {i \in DOMAIN sa : sa[i].user_id = user_id /\ sa[i].news_id = news_id}

\* mark_announcement_sent leaving the table alone when it holds a record of
\* the same (user, identifier)
mark_announcement_sent_once(sa, t, user_id, ann, insert_ok) ==
    IF insert_ok /\ RecordsOf(sa, user_id, ann.news_id) = {}
    THEN [marked |-> TRUE,
          seen_announcements |->
              db_save_seen_announcement(sa, t, user_id, ann.news_id, ann.scrip_code,
                                        ann.headline, strftime(ann.ann_dt),
                                        ann.category)]
    ELSE [marked |-> insert_ok, seen_announcements |-> sa]

\* mark_announcement_sent(sb, user_id, news_id, headline, company_name,
\* ann_dt_str, category, scrip_code, pdf_name), called with the date string
\* the endpoint formats; a failing insert leaves the table as it is and the
\* method returns False.  The answer is the returned value and the table
\* after the call.
mark_announcement_sent(sa, t, user_id, ann, insert_ok) ==
    IF insert_ok
    THEN [marked |-> TRUE,
          seen_announcements |->
              db_save_seen_announcement(sa, t, user_id, ann.news_id, ann.scrip_code,
                                        ann.headline, strftime(ann.ann_dt),
                                        ann.category)]
    ELSE [marked |-> FALSE, seen_announcements |-> sa]

-----------------------------------------------------------------------------
(* The monitoring pass: the body of its per-announcement loop *)

InitDedup ==
    /\ InitTrackerVars
    /\ InitExtraVars
    /\ \E feed \in Feeds : InitDedupVars(feed, PassTimes[feed])

\* the duplicate check of one announcement for one user; a duplicate is
\* counted and skipped, anything else goes on to be sent
IsAnnouncementAlreadySent(user_id, ann, failing) ==
    /\ phase = "idle"
    /\ <<user_id, ann>> \in monitored
    /\ LET ret == is_announcement_already_sent(seen_announcements, dedup_clock,
                                               user_id, ann, failing)
       IN  /\ chk' = <<[user_id |-> user_id, ann |-> ann, ret |-> ret]>>
           /\ phase' = IF ret.already_sent THEN "skip" ELSE "send"
    /\ UNCHANGED <<seen_announcements, dedup_clock, monitored, pass_times, passVars,
                 trackerVars, extraVars>>

\* duplicates_prevented += 1; continue
SkipDuplicate ==
    /\ phase = "skip"
    /\ phase' = "idle"
    /\ chk' = <<>>
    /\ UNCHANGED <<seen_announcements, dedup_clock, monitored, pass_times, passVars,
                 trackerVars, extraVars>>

\* the notifications are sent, then the announcement is marked as sent,
\* whatever the number of notifications that went out
MarkAnnouncementSent(insert_ok) ==
    /\ phase = "send"
    /\ insert_ok => Len(seen_announcements) < MaxLedger
    /\ seen_announcements' = mark_announcement_sent(seen_announcements, dedup_clock,
                                 chk[1].user_id, chk[1].ann, insert_ok).seen_announcements
    /\ phase' = "idle"
    /\ chk' = <<>>
    /\ UNCHANGED <<dedup_clock, monitored, pass_times, passVars,
                 trackerVars, extraVars>>

\* time passes between two checks
DedupTick ==
    /\ phase = "idle"
    /\ \E t \in pass_times : t > dedup_clock /\ dedup_clock' = t
    /\ UNCHANGED <<seen_announcements, monitored, pass_times, phase, chk, passVars,
                 trackerVars, extraVars>>

NextDedup ==
    \/ \E user_id \in UserIds, ann \in {p[2] : p \in monitored},
          failing \in FailureModes : IsAnnouncementAlreadySent(user_id, ann, failing)
    \/ SkipDuplicate
    \/ \E insert_ok \in BOOLEAN : MarkAnnouncementSent(insert_ok)
    \/ DedupTick

DedupSpec == InitDedup /\ [][NextDedup]_vars

-----------------------------------------------------------------------------
(* Claims about the duplicate check *)

\* a duplicate check has answered and the pass has not yet acted on it: the
\* table and the clock are those the check saw
Checked == chk # <<>>

CheckedRet == chk[1].ret

\* the check ran without any of its queries raising
ReadsSucceeded == CheckedRet.failed = {}

MinOf(S) == CHOOSE x \in S : \A y \in S : x <= y

LedgerRows == {seen_announcements[i] : i \in DOMAIN seen_announcements}

\* rows of the checked user and instrument
SameUserInstrument(r) ==
    r.user_id = chk[1].user_id /\ r.scrip_code = chk[1].ann.scrip_code

\* created within the last so many seconds
WithinSeconds(r, seconds) == r.created_at >= dedup_clock - seconds

\* the layer a reason code belongs to, 0 for the codes of no layer
ReasonLayer(reason) ==
    CASE StartsWith(reason, "cooling_period_") -> 1
      [] StartsWith(reason, "exact_match") -> 2
      [] StartsWith(reason, "content_match_") -> 3
      [] StartsWith(reason, "sent_to_other_users_") -> 4
      [] reason = "rate_limiting_protection" -> 5
      [] OTHER -> 0

AnsweredLayer == ReasonLayer(CheckedRet.reason)

\* the cooling window of a headline as the specification states it, in hours
StatedCoolingHours ==
    [headline \in Headlines |->
        IF \/ Contains(lower(headline), "financial results")
           \/ Contains(lower(headline), "quarter ended")
           \/ Contains(lower(headline), "half year ended")
        THEN 168 ELSE 3]

StatedCoolingType ==
    [headline \in Headlines |->
        IF StatedCoolingHours[headline] = 168
        THEN "financial_results_week" ELSE "result_3_hours"]

\* the rows that make each layer match for the checked announcement
CoolingRows ==
    IF is_result_related(chk[1].ann.headline)
    THEN {r \in LedgerRows :
            /\ SameUserInstrument(r)
            /\ WithinSeconds(r, StatedCoolingHours[chk[1].ann.headline] * 3600)
            /\ is_result_related(r.headline)}
    ELSE {}

ExactRows ==
    {r \in LedgerRows : r.user_id = chk[1].user_id /\ r.news_id = chk[1].ann.news_id}

\* a stored headline against a new one: it contains the first 50 characters
\* of the new one and equals it without regard to case; once with the stored
\* headline stripped of surrounding whitespace, once as stored.  Computed
\* once for the headlines of the inputs.
StatedSameHeadlineStripped ==
    [stored \in Headlines |-> [new \in Headlines |->
        /\ Contains(stored, Prefix(strip(new), 50))
        /\ lower(strip(stored)) = lower(new)]]

StatedSameHeadlineAsStored ==
    [stored \in Headlines |-> [new \in Headlines |->
        /\ Contains(stored, Prefix(new, 50))
        /\ lower(stored) = lower(new)]]

\* the same for the category
StatedSameCategoryStripped ==
    [stored \in Categories |-> [new \in Categories |->
        lower(strip(stored)) = lower(new)]]

StatedSameCategoryAsStored ==
    [stored \in Categories |-> [new \in Categories |-> lower(stored) = lower(new)]]

\* and for the date string, against the announcement time formatted
StatedSameDateStripped ==
    [stored \in AnnDates |-> [new \in AnnTimes |-> strip(stored) = strftime(new)]]

StatedSameDateAsStored ==
    [stored \in AnnDates |-> [new \in AnnTimes |-> stored = strftime(new)]]

\* equality of the three fields once the stored values are stripped
ContentRows ==
    {r \in LedgerRows :
        /\ SameUserInstrument(r)
        /\ WithinSeconds(r, 24 * 3600)
        /\ StatedSameHeadlineStripped[r.headline][chk[1].ann.headline]
        /\ StatedSameCategoryStripped[r.category][chk[1].ann.category]
        /\ StatedSameDateStripped[r.ann_date][chk[1].ann.ann_dt]}

\* equality of the three fields as stored
ContentRowsAsStored ==
    {r \in LedgerRows :
        /\ SameUserInstrument(r)
        /\ WithinSeconds(r, 24 * 3600)
        /\ StatedSameHeadlineAsStored[r.headline][chk[1].ann.headline]
        /\ StatedSameCategoryAsStored[r.category][chk[1].ann.category]
        /\ StatedSameDateAsStored[r.ann_date][chk[1].ann.ann_dt]}

\* the number of rows of the table with the checked identifier, of any user,
\* created within the last 6 hours
GlobalCount ==
    Cardinality({i \in DOMAIN seen_announcements :
        /\ seen_announcements[i].news_id = chk[1].ann.news_id
        /\ WithinSeconds(seen_announcements[i], 6 * 3600)})

\* the number of rows of the checked user and instrument created within the
\* last 5 minutes
BurstCount ==
    Cardinality({i \in DOMAIN seen_announcements :
        /\ SameUserInstrument(seen_announcements[i])
        /\ WithinSeconds(seen_announcements[i], 5 * 60)})

\* the layers that match for the checked announcement on the table as it is
MatchingLayers ==
    {q \in Queries :
        \/ q = 1 /\ CoolingRows # {}
        \/ q = 2 /\ ExactRows # {}
        \/ q = 3 /\ ContentRows # {}
        \/ q = 4 /\ GlobalCount >= 1
        \/ q = 5 /\ BurstCount >= 3}

IsIncreasing(seq) == \A i, j \in DOMAIN seq : i < j => seq[i] < seq[j]

\* C4: with storage reads succeeding, the layers are queried in the order
\* cooling period, exact identifier, content, other users, burst; the answer
\* is the reason code of the earliest layer that matches on the table as it
\* is, no query of a later layer is issued, and when no layer matches the
\* answer is not-duplicate with no_duplicate_found.
C4_EarliestLayerAnswers ==
    (Checked /\ ReadsSucceeded) =>
        /\ IsIncreasing(CheckedRet.issued)
        /\ IF MatchingLayers = {}
           THEN ~CheckedRet.already_sent /\ CheckedRet.reason = "no_duplicate_found"
           ELSE /\ CheckedRet.already_sent
                /\ AnsweredLayer = MinOf(MatchingLayers)
                /\ \A i \in DOMAIN CheckedRet.issued :
                       CheckedRet.issued[i] <= MinOf(MatchingLayers)

\* three layers match at once and the earliest of them is not the first
C4_Witness ==
    /\ Checked /\ ReadsSucceeded
    /\ Cardinality(MatchingLayers) >= 3
    /\ AnsweredLayer = 2

\* C5 as stated: whenever a row with the checked identifier exists for the
\* checked user and storage reads succeed, the answer is duplicate with the
\* exact-match reason, whatever the headline.
C5_ExactMatchWhateverHeadline ==
    (Checked /\ ReadsSucceeded /\ ExactRows # {}) =>
        CheckedRet.already_sent /\ AnsweredLayer = 2

\* C5 amended: whenever a row with the checked identifier exists for the
\* checked user and storage reads succeed, the answer is duplicate; its
\* reason is that of the cooling period when the cooling layer matches and
\* exact_match_existing_table otherwise.
C5_ExactMatchUnlessCooling ==
    (Checked /\ ReadsSucceeded /\ ExactRows # {}) =>
        /\ CheckedRet.already_sent
        /\ IF CoolingRows # {}
           THEN AnsweredLayer = 1
           ELSE CheckedRet.reason = "exact_match_existing_table"

\* the identifier comes back under a changed, result-related headline after
\* the cooling window and is answered as an exact match
C5_Witness ==
    /\ Checked /\ ReadsSucceeded
    /\ is_result_related(chk[1].ann.headline)
    /\ \E r \in ExactRows : r.headline # chk[1].ann.headline
    /\ CheckedRet.reason = "exact_match_existing_table"

\* C6 as stated: when a storage query of the check fails, whichever layer it
\* belongs to, the answer is not-duplicate with the check-failed reason.
C6_AnyFailureFailsOpen ==
    (Checked /\ CheckedRet.failed # {}) =>
        ~CheckedRet.already_sent /\ CheckedRet.reason = "database_check_failed"

\* C6 amended: when a query of layers 2 to 5 fails the answer is
\* not-duplicate with database_check_failed; when only the cooling query
\* fails the cooling layer does not answer and layers 2 to 5 decide as if it
\* had not matched, which may be duplicate.
C6_FailOpenPerLayer ==
    Checked =>
        /\ (CheckedRet.failed \cap (2..5) # {}) =>
               ~CheckedRet.already_sent /\ CheckedRet.reason = "database_check_failed"
        /\ (CheckedRet.failed = {1}) =>
               /\ AnsweredLayer # 1
               /\ IF MatchingLayers \ {1} = {}
                  THEN /\ ~CheckedRet.already_sent
                       /\ CheckedRet.reason = "no_duplicate_found"
                  ELSE /\ CheckedRet.already_sent
                       /\ AnsweredLayer = MinOf(MatchingLayers \ {1})

\* the cooling query failed and the check still answered duplicate
C6_Witness ==
    /\ Checked
    /\ CheckedRet.failed = {1}
    /\ CheckedRet.already_sent

\* C7: when the cooling query does not fail, a result-related headline is
\* answered (true, cooling_period_<type>) exactly when a row of the same user
\* and instrument with a result-related headline was created within the
\* window, 168 hours for a headline with "financial results", "quarter ended"
\* or "half year ended" and 3 hours otherwise; a headline that is not
\* result-related is never answered by the cooling layer.
C7_CoolingWindow ==
    (Checked /\ 1 \notin CheckedRet.failed) =>
        IF is_result_related(chk[1].ann.headline)
        THEN /\ (AnsweredLayer = 1) <=> (CoolingRows # {})
             /\ (AnsweredLayer = 1) =>
                    /\ CheckedRet.already_sent
                    /\ CheckedRet.reason = "cooling_period_cooling_period_"
                                           \o StatedCoolingType[chk[1].ann.headline]
        ELSE AnsweredLayer # 1

\* a financial result is suppressed by a row older than 3 hours
C7_Witness ==
    /\ Checked /\ ReadsSucceeded
    /\ CheckedRet.reason = "cooling_period_cooling_period_financial_results_week"
    /\ \A r \in CoolingRows : ~WithinSeconds(r, 3 * 3600)

C9_OtherUsers ==
    (Checked /\ ReadsSucceeded /\ MatchingLayers \cap (1..3) = {}) =>
        IF GlobalCount >= 1
        THEN /\ CheckedRet.already_sent
             /\ CheckedRet.reason = "sent_to_other_users_" \o IntStr(GlobalCount)
        ELSE AnsweredLayer # 4

\* an announcement delivered to another user only is suppressed for this one
C9_Witness ==
    /\ Checked /\ ReadsSucceeded
    /\ AnsweredLayer = 4
    /\ \A r \in LedgerRows : r.user_id # chk[1].user_id

\* C10 as stated: the content layer answers only if a row of the same user
\* and instrument created within the last 24 hours contains the first 50
\* characters of the new headline and equals the new announcement in
\* headline and category, case-insensitively, and in the date string.
C10_ContentMatchAsStored ==
    (Checked /\ AnsweredLayer = 3) => ContentRowsAsStored # {}

\* C10 amended: the content layer answers only if such a row equals the new
\* announcement in the three fields once the stored headline, category and
\* date string are stripped of surrounding whitespace; the new headline is
\* compared unstripped.
C10_ContentMatchStripped ==
    (Checked /\ AnsweredLayer = 3) => ContentRows # {}

\* a content match on a row that differs from the new announcement in the
\* case of its category
C10_Witness ==
    /\ Checked /\ ReadsSucceeded
    /\ AnsweredLayer = 3
    /\ \E r \in ContentRows : r.category # chk[1].ann.category


\* the checked user and instrument have no delivery record and the checked
\* identifier was delivered to no one
FreshAnnouncement ==
    /\ \A r \in LedgerRows : ~SameUserInstrument(r)
    /\ \A r \in LedgerRows : r.news_id # chk[1].ann.news_id

\* C11: for a user and instrument with no delivery record and an announcement
\* whose identifier was delivered to no one, the check answers not-duplicate,
\* and with the reason no_duplicate_found when none of the queries the outer
\* handler guards raised.
C11_FreshAnnouncement ==
    (Checked /\ FreshAnnouncement) =>
        /\ ~CheckedRet.already_sent
        /\ CheckedRet.failed \subseteq {1} => CheckedRet.reason = "no_duplicate_found"

\* a fresh announcement checked against a ledger that holds records of other
\* instruments
C11_Witness ==
    /\ Checked /\ FreshAnnouncement
    /\ seen_announcements # <<>>
    /\ CheckedRet.reason = "no_duplicate_found"

-----------------------------------------------------------------------------
(* The monitoring pass: bse_announcements_enhanced *)

\* telegram_recipients of a user, in the order the query returns them
Recipients == <<"chat1", "chat2">>

\* what one sendMessage call does: HTTP 200, another status, or an exception
SendResults == {"200", "500", "raised"}

\* the text-message loop leaving at the first call that does not answer 200
RECURSIVE send_text_stop_at_failure(_, _)
send_text_stop_at_failure(results, i) ==
    IF i > Len(results) THEN [notifications_sent |-> 0, raised |-> FALSE]
    ELSE IF results[i] = "raised" THEN [notifications_sent |-> 0, raised |-> TRUE]
    ELSE IF results[i] # "200" THEN [notifications_sent |-> 0, raised |-> FALSE]
    ELSE LET rest == send_text_stop_at_failure(results, i + 1)
         IN  [rest EXCEPT !.notifications_sent = @ + 1]

\* the text-message loop over the recipients from the i-th on, results[j]
\* being what the call for the j-th recipient does: the number of HTTP 200
\* answers up to the first call that raises, and whether one raised.  An
\* exception leaves the send block for its except clause.
RECURSIVE send_text(_, _)
send_text(results, i) ==
    IF i > Len(results) THEN [notifications_sent |-> 0, raised |-> FALSE]
    ELSE IF results[i] = "raised" THEN [notifications_sent |-> 0, raised |-> TRUE]
    ELSE LET rest == send_text(results, i + 1)
         IN  [rest EXCEPT !.notifications_sent =
                             @ + (IF results[i] = "200" THEN 1 ELSE 0)]

\* the orders a pass can process the pairs m in: user after user, in the
\* order list(set(...)) happens to give the users, and the announcements of
\* a user in the order the fetch and the grouping give them
PassOrders(m) ==
    {q \in [1..Cardinality(m) -> m] :
        /\ \A i, j \in DOMAIN q : q[i] = q[j] => i = j
        /\ \A i, j, k \in DOMAIN q :
              (i < j /\ j < k /\ q[i][1] = q[k][1]) => q[j][1] = q[i][1]}

\* the feeds of the runs that follow whole passes
PassFeeds == {Feed_users}

\* PassOrders, computed once for each feed
FeedOrders == [feed \in PassFeeds |-> PassOrders(feed)]

\* the moments of the passes of such a run: the cron job calls the endpoint
\* a minute after the service came up and then at the distances of PassTimes
PassSchedule == [feed \in PassFeeds |-> {t + 60 : t \in PassTimes[feed]}]

InitPass ==
    /\ InitTrackerVars
    /\ InitExtraVars
    /\ \E feed \in PassFeeds : InitDedupVars(feed, PassSchedule[feed])

\* what the loop body does with the answer of the check: continue, or send
after_check_send(already_sent) == "send"

after_check(already_sent) == IF already_sent THEN "skip" ELSE "send"

\* the cron job calls the endpoint: totals are zero and every pair of the
\* user batches is to be processed
StartPassIn(orders) ==
    /\ phase = "idle"
    /\ pass_queue = <<>>
    /\ \E t \in pass_times : t > dedup_clock /\ dedup_clock' = t
    /\ pass_queue' \in orders[monitored]
    /\ totals' = [duplicates_prevented |-> 0, database_errors |-> 0]
    /\ UNCHANGED <<seen_announcements, monitored, pass_times, phase, chk,
                   notifications_sent, send_raised, marked, trackerVars, extraVars>>

StartPass == StartPassIn(FeedOrders)

\* the duplicate check of the next announcement of the pass
CheckAnnouncement(failing) ==
    /\ phase = "idle"
    /\ pass_queue # <<>>
    /\ LET user_id == Head(pass_queue)[1]
           ann == Head(pass_queue)[2]
           ret == is_announcement_already_sent(seen_announcements, dedup_clock,
                                               user_id, ann, failing)
       IN  /\ chk' = <<[user_id |-> user_id, ann |-> ann, ret |-> ret]>>
           /\ phase' = after_check(ret.already_sent)
    /\ UNCHANGED <<seen_announcements, dedup_clock, monitored, pass_times, passVars,
                   trackerVars, extraVars>>

\* if already_sent: totals["duplicates_prevented"] += 1; continue
DuplicatePrevented ==
    /\ phase = "skip"
    /\ totals' = [totals EXCEPT !.duplicates_prevented = @ + 1]
    /\ pass_queue' = Tail(pass_queue)
    /\ phase' = "idle"
    /\ chk' = <<>>
    /\ UNCHANGED <<seen_announcements, dedup_clock, monitored, pass_times,
                   notifications_sent, send_raised, marked, trackerVars, extraVars>>

\* the send block
SendNotifications(results) ==
    /\ phase = "send"
    /\ LET sent == send_text(results, 1)
       IN  /\ notifications_sent' = sent.notifications_sent
           /\ send_raised' = sent.raised
    /\ phase' = "mark"
    /\ UNCHANGED <<seen_announcements, dedup_clock, monitored, pass_times, chk,
                   pass_queue, marked, totals, trackerVars, extraVars>>

\* marked = dedup.mark_announcement_sent(...), whatever notifications_sent is
MarkAsSentWithin(insert_ok, max_rows) ==
    /\ phase = "mark"
    /\ insert_ok => Len(seen_announcements) < max_rows
    /\ LET ret == mark_announcement_sent(seen_announcements, dedup_clock,
                                         chk[1].user_id, chk[1].ann, insert_ok)
       IN  /\ seen_announcements' = ret.seen_announcements
           /\ marked' = ret.marked
    /\ phase' = "marked"
    /\ UNCHANGED <<dedup_clock, monitored, pass_times, chk, pass_queue,
                   notifications_sent, send_raised, totals, trackerVars, extraVars>>

MarkAsSent(insert_ok) == MarkAsSentWithin(insert_ok, MaxLedger)

\* if not marked: totals["database_errors"] += 1; the loop goes on to the
\* next announcement, whose send block starts with notifications_sent = 0
NextAnnouncement ==
    /\ phase = "marked"
    /\ totals' = [totals EXCEPT !.database_errors = @ + (IF marked THEN 0 ELSE 1)]
    /\ pass_queue' = Tail(pass_queue)
    /\ phase' = "idle"
    /\ chk' = <<>>
    /\ notifications_sent' = 0
    /\ send_raised' = FALSE
    /\ marked' = FALSE
    /\ UNCHANGED <<seen_announcements, dedup_clock, monitored, pass_times, trackerVars, extraVars>>

NextPass ==
    \/ StartPass
    \/ \E failing \in FailureModes : CheckAnnouncement(failing)
    \/ DuplicatePrevented
    \/ \E results \in [DOMAIN Recipients -> SendResults] : SendNotifications(results)
    \/ \E insert_ok \in BOOLEAN : MarkAsSent(insert_ok)
    \/ NextAnnouncement

PassSpec == InitPass /\ [][NextPass]_vars

-----------------------------------------------------------------------------
(* Claims about the monitoring pass *)

\* the delivery record of the announcement being processed
IsRecordOfChecked(r) ==
    /\ r.user_id = chk[1].user_id
    /\ r.news_id = chk[1].ann.news_id
    /\ r.scrip_code = chk[1].ann.scrip_code
    /\ r.headline = chk[1].ann.headline
    /\ r.category = chk[1].ann.category
    /\ r.created_at = dedup_clock

\* the step appends exactly one record, that of the announcement being processed
AppendsOneRecord ==
    /\ Len(seen_announcements') = Len(seen_announcements) + 1
    /\ SubSeq(seen_announcements', 1, Len(seen_announcements)) = seen_announcements
    /\ IsRecordOfChecked(seen_announcements'[Len(seen_announcements')])

\* C12: mark_announcement_sent either appends exactly one delivery record and
\* returns True, or, the insert failing, returns False and leaves the ledger
\* as it was; the pass then adds one to its database errors exactly when the
\* value was False, and goes on to the next announcement.
C12_MarkReturnsOutcome ==
    [][/\ phase = "mark" =>
            /\ phase' = "marked"
            /\ \/ marked' /\ AppendsOneRecord
               \/ ~marked' /\ seen_announcements' = seen_announcements
            /\ UNCHANGED <<totals, pass_queue>>
       /\ phase = "marked" =>
            /\ totals'.database_errors =
                   totals.database_errors + (IF marked THEN 0 ELSE 1)
            /\ pass_queue' = Tail(pass_queue)
            /\ phase' = "idle"
            /\ UNCHANGED seen_announcements]_vars

\* after a failed insert was counted the pass has checked the next
\* announcement and is about to send it
C12_Witness ==
    /\ totals.database_errors = 1
    /\ seen_announcements = <<>>
    /\ phase = "send"

\* C13: the ledger grows only in the mark step of an announcement whose
\* check has answered not-duplicate, a failed-open check included, and by the
\* record of that announcement; an announcement answered duplicate goes
\* neither through the send block nor through the mark step: it is counted
\* and the pass moves on.
C13_RecordAfterCheck ==
    [][/\ seen_announcements' # seen_announcements =>
            /\ phase = "mark"
            /\ Checked /\ ~CheckedRet.already_sent
            /\ AppendsOneRecord
       /\ phase \in {"send", "mark", "marked"} => (Checked /\ ~CheckedRet.already_sent)
       /\ (Checked /\ CheckedRet.already_sent) =>
            /\ phase = "skip"
            /\ phase' = "idle"
            /\ pass_queue' = Tail(pass_queue)
            /\ UNCHANGED <<seen_announcements, notifications_sent>>]_vars

\* in a pass that has skipped a duplicate, a record was appended after a
\* check that failed open
C13_Witness ==
    /\ phase = "marked" /\ marked
    /\ CheckedRet.reason = "database_check_failed"
    /\ totals.duplicates_prevented >= 1

\* C14 as stated: an announcement is marked as sent only if at least one
\* notification for it was sent successfully.
C14_MarkedOnlyIfDelivered ==
    (phase = "marked" /\ marked) => notifications_sent >= 1

\* the rows of the ledger without those recorded for other users in the
\* running pass
WithoutOtherUsersOfPass ==
    SelectSeq(seen_announcements,
              LAMBDA r : r.user_id = chk[1].user_id \/ r.created_at # dedup_clock)

\* C15 as stated: the answer of a check whose reads succeed is the one the
\* check gives when the deliveries recorded for other users earlier in the
\* pass are left out of the ledger.  Taken where the check has just
\* answered, the ledger being the one it read.
C15_UsersIndependent ==
    (Checked /\ ReadsSucceeded /\ phase \in {"skip", "send"}) =>
        CheckedRet.already_sent =
            is_announcement_already_sent(WithoutOtherUsersOfPass, dedup_clock,
                                         chk[1].user_id, chk[1].ann, {}).already_sent

-----------------------------------------------------------------------------
(* _get_threshold_level on its own *)

\* the largest price change handed to it, in tenths of a percent
MaxChange == 250

ClassifyInputs == (0 - MaxChange)..MaxChange

InitClassify ==
    /\ InitCacheVars(EmptyBag)
    /\ \E pct \in ClassifyInputs : InitClassifyVars(pct)
    /\ InitThreads
    /\ InitDedupVars({}, {})
    /\ InitExtraVars

\* threshold = self._get_threshold_level(price_change_pct)
GetThresholdLevel ==
    /\ threshold_level = <<>>
    /\ threshold_level' = <<get_threshold_level(classify_pct)>>
    /\ UNCHANGED <<classify_pct, cacheVars, threads, dedupVars, extraVars>>

NextClassify == GetThresholdLevel

ClassifySpec == InitClassify /\ [][NextClassify]_vars

\* C16: the level is the highest of 5, 10, 15 and 20 that the absolute change
\* reaches, a change equal to a ladder value reaching it, and none below 5;
\* it is 20 for 21.5, 15 for -15.0 and none for 4.9, -4.9 and 0; a change and
\* its negation get the same level.
C16_HighestLadderValue ==
    threshold_level # <<>> =>
        LET level == threshold_level[1]
            size == IF classify_pct < 0 THEN 0 - classify_pct ELSE classify_pct
        IN  /\ size < 50 => level = <<>>
            /\ (50 <= size /\ size < 100) => level = <<50>>
            /\ (100 <= size /\ size < 150) => level = <<100>>
            /\ (150 <= size /\ size < 200) => level = <<150>>
            /\ 200 <= size => level = <<200>>
            /\ classify_pct = 215 => level = <<200>>
            /\ classify_pct = 0 - 150 => level = <<150>>
            /\ classify_pct \in {49, 0 - 49, 0} => level = <<>>
            /\ level = get_threshold_level(0 - classify_pct)

\* -15.0 has been classified as 15
C16_Witness == classify_pct = 0 - 150 /\ threshold_level = << <<150>> >>

-----------------------------------------------------------------------------
(* Claims about the persistence check and the record of an alert *)

\* the alert type of a price change that reaches the ladder
AlertTypeOf(pct) == get_alert_type(pct, get_threshold_level(pct)[1])

\* the persisted table holds the record of pct for (user, instrument) today
Persisted(user_id, bse_code, pct) ==
    CopiesIn(AlertRow(user_id, bse_code, isoformat(clock), AlertTypeOf(pct)),
             daily_alerts_sent) > 0

\* the cache holds the alert type of pct for (user, instrument) today
Cached(tracker, user_id, bse_code, pct) ==
    InCache(tracker, user_id, bse_code, isoformat(clock), AlertTypeOf(pct))

\* C17: a should_send_alert call whose persistence check works, made while
\* the cache lacks the computed alert type and the persisted table holds its
\* record for (user, instrument, today), answers not-should-send and leaves
\* the alert type in the cache for (user, instrument, today).
C17_BackfillFromPersisted ==
    [][\A user_id \in UserIds, bse_code \in BseCodes, pct \in PriceChanges :
          (/\ get_threshold_level(pct) # <<>>
           /\ ~Cached(daily_tracker, user_id, bse_code, pct)
           /\ Persisted(user_id, bse_code, pct)
           /\ ShouldSendAlert(user_id, bse_code, pct, TRUE))
          => /\ ~last_call'[1].ret.should_send
             /\ last_call'[1].ret.threshold = get_threshold_level(pct)
             /\ Cached(daily_tracker', user_id, bse_code, pct)]_vars

\* a process that has never answered should-send has found the record
\* another process wrote, and has it in its cache
C17_Witness ==
    /\ last_call # <<>>
    /\ last_call[1].ret.reason = "db_duplicate_" \o "price_up_10pct"
    /\ fired = {}
    /\ InCache(daily_tracker, last_call[1].user_id, last_call[1].bse_code,
               last_call[1].date, "price_up_10pct")

\* the answer (true, threshold, alert_type) for pct
AnswerSend(pct) ==
    [should_send |-> TRUE, threshold |-> get_threshold_level(pct),
     reason |-> AlertTypeOf(pct)]

\* a should_send_alert call whose persistence check fails, for a change that
\* reaches the ladder and whose alert type the cache lacks
FailedCheckCall(user_id, bse_code, pct) ==
    /\ get_threshold_level(pct) # <<>>
    /\ ~Cached(daily_tracker, user_id, bse_code, pct)
    /\ ShouldSendAlert(user_id, bse_code, pct, FALSE)

\* C18 as stated: such a call answers (true, threshold, alert_type) and
\* leaves the cache unchanged.
C18_FailOpenCacheUnchanged ==
    [][\A user_id \in UserIds, bse_code \in BseCodes, pct \in PriceChanges :
          FailedCheckCall(user_id, bse_code, pct)
          => /\ last_call'[1].ret = AnswerSend(pct)
             /\ daily_tracker' = daily_tracker]_vars

\* C18 amended: such a call answers (true, threshold, alert_type) and adds
\* nothing to the cache; the cache is unchanged unless the eviction that
\* opens the call was due, which only removes entries.
C18_FailOpenNothingAdded ==
    [][\A user_id \in UserIds, bse_code \in BseCodes, pct \in PriceChanges :
          FailedCheckCall(user_id, bse_code, pct)
          => /\ last_call'[1].ret = AnswerSend(pct)
             /\ \A key \in DOMAIN daily_tracker' :
                   key \in DOMAIN daily_tracker /\ daily_tracker'[key] = daily_tracker[key]
             /\ last_cleanup' = last_cleanup => daily_tracker' = daily_tracker]_vars

\* the call has just answered should-send for a tuple whose record the
\* persisted table holds: the check that would have found it failed
C18_Witness ==
    /\ last_call # <<>>
    /\ between = {}
    /\ last_call[1].ret.should_send
    /\ last_call[1].date = isoformat(clock)
    /\ CopiesIn(AlertRow(last_call[1].user_id, last_call[1].bse_code,
                         last_call[1].date, last_call[1].ret.reason),
                daily_alerts_sent) > 0

\* the last call is the next call for its tuple after one that answered
\* should-send and was recorded by mark_alert_sent, the same day, and the
\* persisted table does not hold the record: the persisted write had failed
NextCallAfterFailedWrite ==
    /\ last_call # <<>>
    /\ last_call[1].prev # <<>>
    /\ last_call[1].prev[1].ret.should_send
    /\ "mark_alert_sent" \in last_call[1].since
    /\ last_call[1].date = last_call[1].prev[1].date
    /\ CopiesIn(AlertRow(last_call[1].user_id, last_call[1].bse_code, last_call[1].date,
                         last_call[1].prev[1].ret.reason),
                daily_alerts_sent) = 0

\* C19: after mark_alert_sent whose persisted write failed, the next
\* should_send_alert for the same tuple in the same process on the same day
\* answers not-should-send.
C19_CacheSuppressesNextCall ==
    NextCallAfterFailedWrite => ~last_call[1].ret.should_send

-----------------------------------------------------------------------------
(* Two threads of one process share the tracker; nothing in the class locks *)

\* should_send_alert in thread t up to its persistence query: the cleanup,
\* the threshold and the look into the cache.  The query is network I/O, so
\* the other thread can run before it answers.
BeginShouldSendAlert(t, user_id, bse_code, price_change_pct) ==
    /\ threads[t].pc = "idle"
    /\ LET current_date == isoformat(clock)
           cleaned == cleanup_old_entries(daily_tracker, last_cleanup, clock)
           threshold == get_threshold_level(price_change_pct)
           seen == /\ threshold # <<>>
                   /\ InCache(cleaned.tracker, user_id, bse_code, current_date,
                              get_alert_type(price_change_pct, threshold[1]))
       IN  /\ daily_tracker' = cleaned.tracker
           /\ last_cleanup' = cleaned.last_cleanup
           /\ threads' = [threads EXCEPT ![t] =
                  IF threshold = <<>> \/ seen
                  THEN [pc |-> "idle"]
                  ELSE [pc |-> "db_check", user_id |-> user_id, bse_code |-> bse_code,
                        price_change_pct |-> price_change_pct,
                        threshold |-> threshold[1], date |-> current_date,
                        alert_type |-> get_alert_type(price_change_pct, threshold[1])]]
    /\ UNCHANGED <<clock, daily_alerts_sent, last_call, pending, protocol_ok, fired,
                   refired, between, classifyVars, dedupVars, extraVars>>

\* the persistence query answers: a row backfills the cache and the answer is
\* not-should-send; no row, or a failed query, and the answer is should-send
EndShouldSendAlert(t, db_ok) ==
    /\ threads[t].pc = "db_check"
    /\ LET c == threads[t]
       IN  IF has_sent_db_alert(daily_alerts_sent, c.user_id, c.bse_code, c.alert_type,
                                c.date, db_ok)
           THEN /\ daily_tracker' = mark_alert_sent_memory(daily_tracker, c.user_id,
                                        c.bse_code, c.date, c.alert_type)
                /\ threads' = [threads EXCEPT ![t] = [pc |-> "idle"]]
           ELSE /\ daily_tracker' = daily_tracker
                /\ threads' = [threads EXCEPT ![t].pc = "send"]
    /\ UNCHANGED <<last_cleanup, clock, daily_alerts_sent, last_call, pending,
                   protocol_ok, fired, refired, between, classifyVars, dedupVars, extraVars>>

\* the caller has sent the alert and calls mark_alert_sent: the write to the cache
MarkAlertSentMemory(t) ==
    /\ threads[t].pc = "send"
    /\ LET c == threads[t]
       IN  daily_tracker' = mark_alert_sent_memory(daily_tracker, c.user_id, c.bse_code,
                                                   isoformat(clock), c.alert_type)
    /\ threads' = [threads EXCEPT ![t].pc = "mark_db"]
    /\ UNCHANGED <<last_cleanup, clock, daily_alerts_sent, last_call, pending,
                   protocol_ok, fired, refired, between, classifyVars, dedupVars, extraVars>>

\* mark_alert_sent: the insert into daily_alerts_sent, which ends the sequence
MarkAlertSentDb(t, db_ok) ==
    /\ threads[t].pc = "mark_db"
    /\ db_ok => BagCardinality(daily_alerts_sent) < MaxAlertRows
    /\ LET c == threads[t]
       IN  daily_alerts_sent' = mark_alert_sent_db(daily_alerts_sent, c.user_id,
                                    c.bse_code, c.alert_type, isoformat(clock), db_ok)
    /\ threads' = [threads EXCEPT ![t] = [pc |-> "idle"]]
    /\ UNCHANGED <<daily_tracker, last_cleanup, clock, last_call, pending,
                   protocol_ok, fired, refired, between, classifyVars, dedupVars, extraVars>>

NextOverlap ==
    \/ \E t \in Threads, user_id \in UserIds, bse_code \in BseCodes,
          pct \in PriceChanges : BeginShouldSendAlert(t, user_id, bse_code, pct)
    \/ \E t \in Threads, db_ok \in BOOLEAN : EndShouldSendAlert(t, db_ok)
    \/ \E t \in Threads : MarkAlertSentMemory(t)
    \/ \E t \in Threads, db_ok \in BOOLEAN : MarkAlertSentDb(t, db_ok)

OverlapSpec == InitTracker /\ [][NextOverlap]_vars

\* thread t holds a should-send answer: it is between the return of
\* should_send_alert and the end of its mark_alert_sent
AnsweredShouldSend(t) == threads[t].pc \in {"send", "mark_db"}

\* C20: of two check-then-record sequences that overlap on the same (user,
\* instrument, day, alert type), at most one holds a should-send answer.
C20_AtMostOneObservesUnseen ==
    \A t1, t2 \in Threads :
        (/\ t1 # t2
         /\ AnsweredShouldSend(t1) /\ AnsweredShouldSend(t2)
         /\ threads[t1].user_id = threads[t2].user_id
         /\ threads[t1].bse_code = threads[t2].bse_code
         /\ threads[t1].date = threads[t2].date)
        => threads[t1].alert_type # threads[t2].alert_type

-----------------------------------------------------------------------------
(* MultiThresholdAlertTracker: eviction and the persisted rows *)

\* the day a tracking key was recorded for: its last ten characters
DayOf(key) == SubSeq(key, Len(key) - 9, Len(key))

\* the entries of cache a that cache b still holds
Kept(a, b) == {key \in DOMAIN a : key \in DOMAIN b /\ a[key] \subseteq b[key]}

\* the call evicts: the interval since the last cleanup has passed
Evicts == clock - last_cleanup >= cleanup_interval

\* C28: a should_send_alert call that evicts keeps every cache entry recorded
\* for the current day and leaves no entry of another day in the cache.
C28_EvictsExactlyOtherDays ==
    [][\A user_id \in UserIds, bse_code \in BseCodes, pct \in PriceChanges, db_ok \in BOOLEAN :
          (Evicts /\ ShouldSendAlert(user_id, bse_code, pct, db_ok)) =>
              /\ \A key \in DOMAIN daily_tracker :
                    DayOf(key) = isoformat(clock) => key \in Kept(daily_tracker, daily_tracker')
              /\ \A key \in DOMAIN daily_tracker' : DayOf(key) = isoformat(clock)]_vars

\* C29: a should_send_alert call made less than cleanup_interval seconds
\* after the last cleanup, or after construction, removes no cache entry and
\* leaves the last-cleanup time; the last-cleanup time moves by no less than
\* the interval.
C29_AtMostOncePerInterval ==
    [][/\ \A user_id \in UserIds, bse_code \in BseCodes, pct \in PriceChanges, db_ok \in BOOLEAN :
             (~Evicts /\ ShouldSendAlert(user_id, bse_code, pct, db_ok)) =>
                 /\ last_cleanup' = last_cleanup
                 /\ Kept(daily_tracker, daily_tracker') = DOMAIN daily_tracker
       /\ last_cleanup' # last_cleanup => last_cleanup' - last_cleanup >= cleanup_interval]_vars

\* a call has just been made 1800 seconds after an eviction, on the next day:
\* it did not evict, and the cache still holds the entry of the day before
C29_Witness ==
    /\ last_call # <<>>
    /\ between = {}
    /\ ~last_call[1].evicted
    /\ last_cleanup = 84600
    /\ clock = 86400
    /\ \E key \in DOMAIN daily_tracker : DayOf(key) = isoformat(84600)

\* C30: daily_alerts_sent holds at most one row for each (user, instrument,
\* date, alert type).
C30_AtMostOneRowPerKey ==
    \A row \in BagToSet(daily_alerts_sent) : CopiesIn(row, daily_alerts_sent) <= 1

\* no row of daily_alerts_sent is changed or removed
C30_RowsOnlyAdded ==
    [][\A row \in BagToSet(daily_alerts_sent) :
          CopiesIn(row, daily_alerts_sent') >= CopiesIn(row, daily_alerts_sent)]_vars

-----------------------------------------------------------------------------
(* Two instances of the monitoring pass at once: independent invocations of *)
(* the endpoint share the table seen_announcements and nothing else         *)

\* the queries that raise during a check of a worker: none, or all of them
WorkerFailureModes == {{}, Queries}

\* what the pass of each worker has to process: two announcements of one
\* instrument for the same user
Feed_workers == {"u1"} \X {A_appt, A_allot}

InitWorkers == InitTrackerVars /\ InitExtraVars /\ InitDedupVars(Feed_workers, {})

\* worker w reaches the duplicate check of an announcement of its pass;
\* a duplicate is counted and the loop continues
WorkerCheck(w, user_id, ann, failing) ==
    /\ workers[w].pc = "idle"
    /\ <<user_id, ann>> \in monitored
    /\ LET ret == is_announcement_already_sent(seen_announcements, dedup_clock,
                                               user_id, ann, failing)
       IN  workers' = [workers EXCEPT ![w] =
               IF after_check(ret.already_sent) = "skip"
               THEN [pc |-> "idle"]
               ELSE [pc |-> "send", user_id |-> user_id, ann |-> ann,
                     failed |-> ret.failed,
                     rows_at_check |-> Len(seen_announcements)]]
    /\ UNCHANGED <<trackerVars, dedupVars, runVars, groupingVars, sendVars, queryVars>>

\* the send block of worker w
WorkerSend(w, results) ==
    /\ workers[w].pc = "send"
    /\ workers' = [workers EXCEPT ![w] =
           [pc |-> "mark", user_id |-> @.user_id, ann |-> @.ann, failed |-> @.failed,
            rows_at_check |-> @.rows_at_check,
            notifications_sent |-> send_text(results, 1).notifications_sent]]
    /\ UNCHANGED <<trackerVars, dedupVars, runVars, groupingVars, sendVars, queryVars>>

\* worker w marks its announcement as sent
WorkerMark(w, insert_ok) ==
    /\ workers[w].pc = "mark"
    /\ insert_ok => Len(seen_announcements) < MaxLedger
    /\ LET ret == mark_announcement_sent(seen_announcements, dedup_clock,
                                         workers[w].user_id, workers[w].ann, insert_ok)
       IN  /\ seen_announcements' = ret.seen_announcements
           /\ workers' = [workers EXCEPT ![w] =
                  [pc |-> "marked", user_id |-> @.user_id, ann |-> @.ann,
                   failed |-> @.failed, rows_at_check |-> @.rows_at_check,
                   notifications_sent |-> @.notifications_sent,
                   marked |-> ret.marked]]
    /\ UNCHANGED <<dedup_clock, monitored, pass_times, phase, chk, passVars,
                   trackerVars, runVars, groupingVars, sendVars, queryVars>>

\* worker w goes on to the next announcement of its pass
WorkerNext(w) ==
    /\ workers[w].pc = "marked"
    /\ workers' = [workers EXCEPT ![w] = [pc |-> "idle"]]
    /\ UNCHANGED <<trackerVars, dedupVars, runVars, groupingVars, sendVars, queryVars>>

NextWorkers ==
    \/ \E w \in Workers, p \in monitored, failing \in WorkerFailureModes :
          WorkerCheck(w, p[1], p[2], failing)
    \/ \E w \in Workers, results \in [DOMAIN Recipients -> SendResults] :
          WorkerSend(w, results)
    \/ \E w \in Workers, insert_ok \in BOOLEAN : WorkerMark(w, insert_ok)
    \/ \E w \in Workers : WorkerNext(w)

WorkersSpec == InitWorkers /\ [][NextWorkers]_vars

\* worker w holds a not-duplicate answer, none of its queries having failed,
\* for an announcement the table has a record of: the record was appended by
\* the other worker after the check of w
OvertakenWorker(w) ==
    /\ workers[w].pc = "mark"
    /\ workers[w].failed = {}
    /\ RecordsOf(seen_announcements, workers[w].user_id, workers[w].ann.news_id) # {}

\* C21: nothing keeps a worker whose check answered not-duplicate from
\* recording: when the other worker has recorded the same (user,
\* announcement identifier) in the meantime, the insert of this worker
\* still appends its record, and the table then holds two records of the
\* pair.
C21_BothWorkersRecord ==
    [][\A w \in Workers :
          (OvertakenWorker(w) /\ WorkerMark(w, TRUE)) =>
              /\ Len(seen_announcements') = Len(seen_announcements) + 1
              /\ Cardinality(RecordsOf(seen_announcements', workers[w].user_id,
                                       workers[w].ann.news_id)) >= 2]_vars

\* both workers checked the same (user, announcement) on the empty table with
\* no failing query, both sent, and both have recorded
C21_Witness ==
    /\ \A w \in Workers :
          /\ workers[w].pc = "marked"
          /\ workers[w].marked
          /\ workers[w].failed = {}
          /\ workers[w].rows_at_check = 0
          /\ workers[w].notifications_sent > 0
          /\ workers[w].user_id = "u1"
          /\ workers[w].ann = A_appt
    /\ Cardinality(RecordsOf(seen_announcements, "u1", A_appt.news_id)) = 2

-----------------------------------------------------------------------------
(* One monitoring pass as the loop over the users: bse_announcements_enhanced *)

\* user_announcements of each user after fetching and grouping
UserBatches == [uid \in UserIds |-> IF uid = "u1" THEN <<A_appt, A_allot>> ELSE <<A_appt>>]

\* unique_user_ids: list(set(...)) gives the users in any order
UserOrders == {<<"u1", "u2">>, <<"u2", "u1">>}

\* str(e) of an exception that reaches the handler of the user loop
UserErrors == {"timeout"}

\* uid[:8]
Prefix8(uid) == SubSeq(uid, 1, IF Len(uid) < 8 THEN Len(uid) ELSE 8)

\* the totals dictionary at the start of a run
ZeroTotals ==
    [users_processed |-> 0, total_announcements_found |-> 0, notifications_sent |-> 0,
     duplicates_prevented |-> 0, database_errors |-> 0]

InitRun == InitTrackerVars /\ InitExtraVars /\ InitDedupVars({}, {})

\* the run starts: the users are read, totals and errors are empty
StartRun(order) ==
    /\ run.pc = "idle"
    /\ run' = [pc |-> "user", order |-> order, users |-> order, batch |-> <<>>,
               totals |-> ZeroTotals,
               errors |-> <<>>, last |-> <<>>, response |-> <<>>]
    /\ UNCHANGED <<trackerVars, dedupVars, workerVars, groupingVars, sendVars, queryVars>>

\* the handler of the user loop dropping the rest of the run
except_user_abort(r, uid, e) ==
    [r EXCEPT !.errors = Append(@, "User " \o Prefix8(uid) \o ": " \o e),
              !.users = <<>>, !.batch = <<>>, !.pc = "user"]

\* the handler of the user loop: the error goes to the list, the loop goes on
except_user(r, uid, e) ==
    [r EXCEPT !.errors = Append(@, "User " \o Prefix8(uid) \o ": " \o e),
              !.users = Tail(@), !.batch = <<>>, !.pc = "user"]

\* the next user: the queries for the scrips and the recipients, the fetch
\* and the grouping, any of which can raise (raised is then str(e))
BeginUser(raised) ==
    /\ run.pc = "user"
    /\ run.users # <<>>
    /\ LET uid == Head(run.users)
       IN  run' = IF raised # <<>>
                  THEN except_user(run, uid, raised[1])
                  ELSE [run EXCEPT !.batch = UserBatches[uid],
                                   !.totals.total_announcements_found =
                                       @ + Len(UserBatches[uid]),
                                   !.pc = "announcement"]
    /\ UNCHANGED <<trackerVars, dedupVars, workerVars, groupingVars, sendVars, queryVars>>

\* the handler of the announcement loop: the error is counted
except_announcement(r) ==
    [r EXCEPT !.totals.database_errors = @ + 1, !.batch = Tail(@)]

\* the body of the announcement loop for the next announcement of the user:
\* raised says that a statement before the send block raises; otherwise the
\* duplicate check, the send block with the given results of the sendMessage
\* calls and the marking with the given outcome of the insert
ProcessAnnouncement(failing, results, insert_ok, raised) ==
    /\ run.pc = "announcement"
    /\ run.batch # <<>>
    /\ insert_ok => Len(seen_announcements) < MaxLedger
    /\ LET uid == Head(run.users)
           ann == Head(run.batch)
           ret == is_announcement_already_sent(seen_announcements, dedup_clock,
                                               uid, ann, failing)
           sent == send_text(results, 1)
           mark == mark_announcement_sent(seen_announcements, dedup_clock,
                                          uid, ann, insert_ok)
       IN  IF raised
           THEN /\ run' = [except_announcement(run) EXCEPT !.last =
                               <<[kind |-> "raised", user_id |-> uid, ann |-> ann]>>]
                /\ UNCHANGED seen_announcements
           ELSE IF after_check(ret.already_sent) = "skip"
           THEN /\ run' = [run EXCEPT !.totals.duplicates_prevented = @ + 1,
                                      !.batch = Tail(@),
                                      !.last = <<[kind |-> "duplicate", user_id |-> uid,
                                                  ann |-> ann]>>]
                /\ UNCHANGED seen_announcements
           ELSE /\ run' = [run EXCEPT
                              !.totals.notifications_sent = @ + sent.notifications_sent,
                              !.totals.database_errors = @ + (IF mark.marked THEN 0 ELSE 1),
                              !.errors = IF mark.marked THEN @
                                         ELSE Append(@, "Failed to mark " \o ann.news_id
                                                 \o " as sent for user " \o Prefix8(uid)),
                              !.batch = Tail(@),
                              !.last = <<[kind |-> "sent", user_id |-> uid, ann |-> ann,
                                          results |-> results,
                                          notifications_sent |-> sent.notifications_sent,
                                          marked |-> mark.marked]>>]
                /\ seen_announcements' = mark.seen_announcements
    /\ UNCHANGED <<dedup_clock, monitored, pass_times, phase, chk, passVars,
                   trackerVars, workerVars, groupingVars, sendVars, queryVars>>

\* the announcements of the user are through: the user is counted
EndUser ==
    /\ run.pc = "announcement"
    /\ run.batch = <<>>
    /\ run' = [run EXCEPT !.totals.users_processed = @ + 1, !.users = Tail(@),
                          !.pc = "user"]
    /\ UNCHANGED <<trackerVars, dedupVars, workerVars, groupingVars, sendVars, queryVars>>

\* the users are through: the response of the endpoint
EndRun ==
    /\ run.pc = "user"
    /\ run.users = <<>>
    /\ run' = [run EXCEPT !.pc = "done",
                          !.response = <<[ok |-> TRUE, stats |-> run.totals,
                                          errors |-> run.errors]>>]
    /\ UNCHANGED <<trackerVars, dedupVars, workerVars, groupingVars, sendVars, queryVars>>

NextRun ==
    \/ \E order \in UserOrders : StartRun(order)
    \/ \E raised \in {<<>>} \cup {<<e>> : e \in UserErrors} : BeginUser(raised)
    \/ \E failing \in WorkerFailureModes, results \in [DOMAIN Recipients -> SendResults],
          insert_ok \in BOOLEAN, raised \in BOOLEAN :
          ProcessAnnouncement(failing, results, insert_ok, raised)
    \/ EndUser
    \/ EndRun

RunSpec == InitRun /\ [][NextRun]_vars

\* a step in which the handler of the user loop catches an error
UserRaises == \E e \in UserErrors : BeginUser(<<e>>)

\* a step in which a statement of the announcement loop body raises
AnnouncementRaises ==
    \E failing \in WorkerFailureModes, results \in [DOMAIN Recipients -> SendResults],
       insert_ok \in BOOLEAN : ProcessAnnouncement(failing, results, insert_ok, TRUE)

\* the rows of the table stay: the table after the step starts with the table
\* before it
RecordsStay ==
    /\ Len(seen_announcements') >= Len(seen_announcements)
    /\ SubSeq(seen_announcements', 1, Len(seen_announcements)) = seen_announcements

\* the response of a finished run is the success summary with the counts and
\* the error list of the run
SuccessSummary ==
    run.pc = "done" =>
        run.response = <<[ok |-> TRUE, stats |-> run.totals, errors |-> run.errors]>>

C22_WitnessRemainingUser ==
    /\ run.pc = "done"
    /\ run.order = <<"u1", "u2">>
    /\ run.response[1].errors = <<"User u1: timeout">>
    /\ run.response[1].stats.users_processed = 1
    /\ RecordsOf(seen_announcements, "u2", A_appt.news_id) # {}

\* the sendMessage calls that answered 200 among results
Delivered(results) == {i \in DOMAIN results : results[i] = "200"}

\* C23: when no sendMessage call of an announcement raises, whatever the
\* statuses of the calls, notifications_sent grows by the number of calls
\* that answered 200, those after a call with another status included, and
\* the loop stays in the batch of the user with the remaining announcements
\* still to be processed.
C23_StatusFailureDoesNotBlock ==
    [][\A failing \in WorkerFailureModes, results \in [DOMAIN Recipients -> SendResults],
          insert_ok \in BOOLEAN :
          (/\ "raised" \notin Range(results)
           /\ ProcessAnnouncement(failing, results, insert_ok, FALSE)
           /\ run'.last[1].kind = "sent") =>
              /\ run'.last[1].notifications_sent = Cardinality(Delivered(results))
              /\ run'.totals.notifications_sent =
                     run.totals.notifications_sent + Cardinality(Delivered(results))
              /\ run'.batch = Tail(run.batch)
              /\ run'.users = run.users
              /\ run'.pc = "announcement"]_vars

\* the first recipient of the first announcement of u1 got HTTP 500, the
\* second got the message and was counted, and the second announcement of u1
\* is next
C23_Witness ==
    /\ run.pc = "announcement"
    /\ run.last # <<>>
    /\ run.last[1].kind = "sent"
    /\ run.last[1].user_id = "u1"
    /\ run.last[1].ann = A_appt
    /\ run.last[1].results = <<"500", "200">>
    /\ run.totals.notifications_sent = 1
    /\ run.batch = <<A_allot>>

-----------------------------------------------------------------------------
(* Content signatures: generate_content_signature and its regular expressions *)

IsDigit(c) == c \in {"0", "1", "2", "3", "4", "5", "6", "7", "8", "9"}

\* s[i-1:i-1+n] of Python: at most n characters of s from the i-th on
Slice(s, i, n) ==
    IF i > Len(s) THEN "" ELSE SubSeq(s, i, IF i + n - 1 > Len(s) THEN Len(s) ELSE i + n - 1)

\* \d{n} at position i of s
DigitsAt(s, i, n) ==
    /\ i + n - 1 <= Len(s)
    /\ \A j \in i..(i + n - 1) : IsDigit(Char(s, j))

\* the position after the run of whitespace that starts at position i of s
RECURSIVE SkipSpaces(_, _)
SkipSpaces(s, i) ==
    IF i <= Len(s) /\ IsSpace(Char(s, i)) THEN SkipSpaces(s, i + 1) ELSE i

months == <<"january", "february", "march", "april", "may", "june", "july",
            "august", "september", "october", "november", "december">>

ordinals == {"st", "nd", "rd", "th"}

\* \s+(?:january|...|december)\s+\d{4} at position i of s: the position after
\* the match, 0 if there is none
MonthYearAt(s, i) ==
    LET j == SkipSpaces(s, i)
        found == {k \in DOMAIN months : Slice(s, j, Len(months[k])) = months[k]}
    IN  IF j = i \/ found = {} THEN 0
        ELSE LET m == CHOOSE k \in found : \A o \in found : k <= o
                 e == j + Len(months[m])
                 y == SkipSpaces(s, e)
             IN  IF y > e /\ DigitsAt(s, y, 4) THEN y + 4 ELSE 0

\* (?:st|nd|rd|th)? and the rest of the first date pattern at position i:
\* the suffix is taken if the rest matches after it, left out otherwise
OrdinalMonthYearAt(s, i) ==
    IF Slice(s, i, 2) \in ordinals /\ MonthYearAt(s, i + 2) # 0
    THEN MonthYearAt(s, i + 2)
    ELSE MonthYearAt(s, i)

IsDateSeparator(s, i) == i <= Len(s) /\ Char(s, i) \in {"-", "/", "."}

\* \d{1,2}[-/\.] at position i of s, two digits tried before one: the
\* position after the separator, 0 if there is none
DayOrMonthAt(s, i) ==
    IF DigitsAt(s, i, 2) /\ IsDateSeparator(s, i + 2) THEN i + 3
    ELSE IF DigitsAt(s, i, 1) /\ IsDateSeparator(s, i + 1) THEN i + 2
    ELSE 0

\* the date patterns, in the order of the source:
\*   1  (\d{1,2}(?:st|nd|rd|th)?\s+(?:january|...|december)\s+\d{4})
\*   2  (\d{1,2}[-/\.]\d{1,2}[-/\.]\d{4})
\*   3  (\d{4}[-/\.]\d{1,2}[-/\.]\d{1,2})
\* date_pattern_at(p, s, i) is the position after the match of pattern p that
\* starts at position i of s, 0 if none starts there
date_pattern_at(p, s, i) ==
    CASE p = 1 ->
           IF DigitsAt(s, i, 2) /\ OrdinalMonthYearAt(s, i + 2) # 0
           THEN OrdinalMonthYearAt(s, i + 2)
           ELSE IF DigitsAt(s, i, 1) THEN OrdinalMonthYearAt(s, i + 1)
           ELSE 0
      [] p = 2 ->
           LET a == DayOrMonthAt(s, i)
               b == IF a = 0 THEN 0 ELSE DayOrMonthAt(s, a)
           IN  IF b # 0 /\ DigitsAt(s, b, 4) THEN b + 4 ELSE 0
      [] p = 3 ->
           LET a == IF DigitsAt(s, i, 4) /\ IsDateSeparator(s, i + 4) THEN i + 5 ELSE 0
               b == IF a = 0 THEN 0 ELSE DayOrMonthAt(s, a)
           IN  IF b = 0 THEN 0
               ELSE IF DigitsAt(s, b, 2) THEN b + 2
               ELSE IF DigitsAt(s, b, 1) THEN b + 1
               ELSE 0

\* re.findall(pattern, s): the matches from left to right, each search
\* starting where the match before it ended
RECURSIVE findall_from(_, _, _)
findall_from(p, s, i) ==
    IF i > Len(s) THEN <<>>
    ELSE LET e == date_pattern_at(p, s, i)
         IN  IF e # 0 THEN <<SubSeq(s, i, e - 1)>> \o findall_from(p, s, e)
             ELSE findall_from(p, s, i + 1)

findall(p, s) == findall_from(p, s, 1)

\* re.sub(r'(st|nd|rd|th)', '', s)
RECURSIVE sub_ordinals(_)
sub_ordinals(s) ==
    IF s = "" THEN ""
    ELSE IF Slice(s, 1, 2) \in ordinals THEN sub_ordinals(Slice(s, 3, Len(s)))
    ELSE Char(s, 1) \o sub_ordinals(Tail(s))

\* re.sub(r'[./]', '-', s)
RECURSIVE sub_separators(_)
sub_separators(s) ==
    IF s = "" THEN ""
    ELSE (IF Char(s, 1) \in {".", "/"} THEN "-" ELSE Char(s, 1)) \o sub_separators(Tail(s))

\* clean_date of a matched date string
normalize_date(date_str) == sub_separators(sub_ordinals(lower(date_str)))

\* the characters of normalized dates in the order of their code points
CodePointOrder == " -0123456789abcdefghijklmnopqrstuvwxyz"

CodePoint == [c \in {Char(CodePointOrder, i) : i \in 1..Len(CodePointOrder)} |->
                 CHOOSE i \in 1..Len(CodePointOrder) : Char(CodePointOrder, i) = c]

\* a < b for Python strings
RECURSIVE StrLess(_, _)
StrLess(a, b) ==
    IF b = "" THEN FALSE
    ELSE IF a = "" THEN TRUE
    ELSE IF Char(a, 1) = Char(b, 1) THEN StrLess(Tail(a), Tail(b))
    ELSE CodePoint[Char(a, 1)] < CodePoint[Char(b, 1)]

\* sorted(strs) for a set of strings
RECURSIVE sorted(_)
sorted(strs) ==
    IF strs = {} THEN <<>>
    ELSE LET least == CHOOSE a \in strs : \A b \in strs \ {a} : StrLess(a, b)
         IN  <<least>> \o sorted(strs \ {least})

\* sep.join(strs)
RECURSIVE join(_, _)
join(sep, strs) ==
    IF strs = <<>> THEN ""
    ELSE IF Len(strs) = 1 THEN strs[1]
    ELSE strs[1] \o sep \o join(sep, Tail(strs))

\* '_'.join(normalized_dates), the dates in the order they were extracted
dates_signature_unsorted(normalized_dates) == join("_", normalized_dates)

\* '_'.join(sorted(set(normalized_dates)))
dates_signature(normalized_dates) == join("_", sorted(Range(normalized_dates)))

financial_periods ==
    <<"quarter ended", "half year ended", "year ended", "quarterly", "annual",
      "financial results", "unaudited", "audited", "standalone", "consolidated">>

contract_terms == <<"order", "contract", "bagged", "secured", "won", "received">>

\* [f(x) for x in xs]
normalized(dates) == [i \in DOMAIN dates |-> normalize_date(dates[i])]

\* hashlib.md5(headline.encode()).hexdigest()[:8], for the headlines of the
\* runs below
md5_hexdigest_8(headline) ==
    CASE headline = "Appointment of Director" -> "ca7e7767"
      [] headline = "Allotment of shares" -> "469b08cc"
      [] headline = "empty" -> "a2e4822a"
      [] headline = "Dividend declared" -> "2681dca0"

\* what a call of generate_content_signature gives: a signature, or an exception
Returned(signature) == [raised |-> FALSE, signature |-> signature]

Raised == [raised |-> TRUE, signature |-> ""]

\* generate_content_signature looking for a board meeting before it looks
\* for a financial period
generate_content_signature_meeting_first(headline, scrip_code) ==
    IF headline = <<>> \/ headline[1] = "" THEN Returned("empty_" \o scrip_code)
    ELSE LET h == lower(headline[1])
             extracted_dates == findall(1, h) \o findall(2, h) \o findall(3, h)
         IN  IF Contains(h, "board meeting")
             THEN IF findall(1, h) # <<>>
                  THEN Returned("board_meeting_" \o scrip_code \o "_"
                                \o normalize_date(findall(1, h)[1]))
                  ELSE IF findall(2, h) # <<>>
                  THEN Returned("board_meeting_" \o scrip_code \o "_"
                                \o normalize_date(findall(2, h)[1]))
                  ELSE Returned("board_meeting_" \o scrip_code \o "_unknown_date")
             ELSE IF AnyIn(financial_periods, h)
             THEN IF extracted_dates # <<>>
                  THEN Returned("financial_" \o scrip_code \o "_"
                                \o dates_signature(normalized(extracted_dates)))
                  ELSE Returned("financial_" \o scrip_code \o "_unknown_period")
             ELSE IF AnyIn(contract_terms, h)
             THEN Raised
             ELSE Returned("other_" \o scrip_code \o "_" \o md5_hexdigest_8(headline[1]))

\* generate_content_signature(headline, scrip_code, ann_dt); ann_dt is not
\* used.  headline is <<>> for None and <<h>> for the string h.
\* The name re is a local of the function, bound by the import statements
\* inside the financial and the board-meeting branch only; both branches
\* return, so the contract branch reads it unbound.
generate_content_signature(headline, scrip_code) ==
    IF headline = <<>> \/ headline[1] = "" THEN Returned("empty_" \o scrip_code)
    ELSE LET h == lower(headline[1])
             extracted_dates == findall(1, h) \o findall(2, h) \o findall(3, h)
         IN  IF AnyIn(financial_periods, h)
             THEN IF extracted_dates # <<>>
                  THEN Returned("financial_" \o scrip_code \o "_"
                                \o dates_signature(normalized(extracted_dates)))
                  ELSE Returned("financial_" \o scrip_code \o "_unknown_period")
             ELSE IF Contains(h, "board meeting")
             THEN IF findall(1, h) # <<>>
                  THEN Returned("board_meeting_" \o scrip_code \o "_"
                                \o normalize_date(findall(1, h)[1]))
                  ELSE IF findall(2, h) # <<>>
                  THEN Returned("board_meeting_" \o scrip_code \o "_"
                                \o normalize_date(findall(2, h)[1]))
                  ELSE Returned("board_meeting_" \o scrip_code \o "_unknown_date")
             ELSE IF AnyIn(contract_terms, h)
             THEN Raised
             ELSE Returned("other_" \o scrip_code \o "_" \o md5_hexdigest_8(headline[1]))

-----------------------------------------------------------------------------
(* generate_content_signature applied to one headline *)

ScripCodes == {"500325", "532540"}

\* the headlines of the end-to-end scenario of the grouping
H_meeting_words == "Board Meeting on 15th March 2025 to consider..."
H_meeting_digits == "Board Meeting intimation - 15-03-2025"
H_q4 == "Q4 Results for quarter ended 31 December 2024"

\* dates as headlines write them; the first and the second, and the third and
\* the fourth, are the same day with and without the ordinal suffix
DateTokens ==
    {"1st March 2025", "1 March 2025", "22nd August 2025", "22 August 2025", "31-03-2025"}

\* the date a token stands for: the token without its ordinal suffix
DateOf(token) ==
    CASE token = "1st March 2025" -> "1 March 2025"
      [] token = "22nd August 2025" -> "22 August 2025"
      [] OTHER -> token

\* the longest list of dates in a headline
MaxDates == 3

TokenSeqs == UNION {[1..n -> DateTokens] : n \in 1..MaxDates}

FinancialPhrases == {"Audited results for ", "Results for quarter ended "}

\* a headline of a financial result that names the dates of tokens
FinancialHeadline(phrase, tokens) == phrase \o join(" and ", tokens)

\* headlines of the other families, and no headline
OtherHeadlines ==
    {<<H_meeting_words>>, <<H_meeting_digits>>, <<H_q4>>,
     <<"Board meeting 15.03.2025">>, <<"Board meeting 15/03/2025">>,
     <<"Board meeting 2025-03-15">>, <<"Outcome of Board Meeting">>,
     <<"Unaudited financial results">>,
     <<"Bagged order worth Rs. 250 crore">>, <<"Company has received order">>,
     <<"Secured contract of Rs. 250 crore">>, <<"Won new project">>,
     <<"Board Meeting to consider audited results">>,
     <<"Board Meeting on 15th March 2025 for quarterly results">>,
     <<"Board Meeting on 15th March 2025 to approve contract">>,
     <<"Board Meeting to consider order received">>,
     <<"Audited results and order book">>,
     <<"Appointment of Director">>, <<"Allotment of shares">>, <<"empty">>,
     <<"">>, <<>>}

\* what generate_content_signature is called with; source says how a
\* financial headline was built
SignatureInputs ==
    {[headline |-> <<FinancialHeadline(phrase, tokens)>>, scrip_code |-> c,
      source |-> <<[phrase |-> phrase, tokens |-> tokens]>>] :
        phrase \in FinancialPhrases, tokens \in TokenSeqs, c \in ScripCodes}
    \cup {[headline |-> h, scrip_code |-> c, source |-> <<>>] :
             h \in OtherHeadlines, c \in ScripCodes}

InitSignature ==
    /\ InitTrackerVars
    /\ InitDedupVars({}, {})
    /\ InitWorkerVars
    /\ InitRunVars
    /\ InitSendVars
    /\ InitQueryVars
    /\ grouping = [pc |-> "idle"]
    /\ \E input \in SignatureInputs :
          content_signature = [pc |-> "call", headline |-> input.headline,
                               scrip_code |-> input.scrip_code, source |-> input.source]

\* the call returns or raises
GenerateContentSignature ==
    /\ content_signature.pc = "call"
    /\ LET c == content_signature
       IN  content_signature' =
               [pc |-> "done", headline |-> c.headline, scrip_code |-> c.scrip_code,
                source |-> c.source,
                ret |-> generate_content_signature(c.headline, c.scrip_code)]
    /\ UNCHANGED <<trackerVars, dedupVars, workerVars, runVars, grouping, sendVars, queryVars>>

NextSignature == GenerateContentSignature

SignatureSpec == InitSignature /\ [][NextSignature]_vars

-----------------------------------------------------------------------------
(* Grouping of a user batch and the choice of one announcement per group *)

\* an announcement as the fetch hands it to the grouping; headline is <<>>
\* when the key is missing, pdf_name is "" when there is no document, ann_dt
\* is the hour of 2025-03-15 it was published at
Fetched(news_id, headline, pdf_name, ann_dt) ==
    [news_id |-> news_id, headline |-> headline, scrip_code |-> "500325",
     pdf_name |-> pdf_name, ann_dt |-> ann_dt]

\* the end-to-end scenario: two headlines of one board meeting and a result
G_meeting_words == Fetched("G1", <<H_meeting_words>>, "", 10)
G_meeting_digits == Fetched("G2", <<H_meeting_digits>>, "", 11)
G_q4 == Fetched("G3", <<H_q4>>, "", 12)

ScenarioBatch == <<G_meeting_words, G_meeting_digits, G_q4>>

\* announcements of one signature that differ in document, time and headline
GroupedPool ==
    {Fetched("M" \o IntStr(Len(h[1])) \o IntStr(Len(pdf_name)) \o IntStr(ann_dt),
             h, pdf_name, ann_dt) :
        h \in {<<"Board Meeting">>, <<"Outcome of Board Meeting">>},
        pdf_name \in {"", "a.pdf"}, ann_dt \in {10, 12}}

G_missing == Fetched("G4", <<>>, "", 10)
G_order == Fetched("G5", <<"Bagged order worth Rs. 250 crore">>, "a.pdf", 10)

FetchedPool ==
    GroupedPool \cup {G_meeting_words, G_meeting_digits, G_q4, G_missing, G_order}

\* the longest batch of a user
MaxBatch == 3

\* the batches of n announcements
Batches(n) == [1..n -> FetchedPool]

\* ann.get('headline', '')
get_headline(ann) == IF ann.headline = <<>> THEN <<"">> ELSE ann.headline

\* groups after the announcement ann with the signature sig was added: a
\* dict keeps its keys in the order of their first insertion
add_to_group(groups, sig, ann) ==
    IF \E i \in DOMAIN groups : groups[i].signature = sig
    THEN [i \in DOMAIN groups |->
             IF groups[i].signature = sig
             THEN [groups[i] EXCEPT !.group = Append(@, ann)]
             ELSE groups[i]]
    ELSE Append(groups, [signature |-> sig, group |-> <<ann>>])

\* the loop of group_announcements from the i-th announcement on, groups
\* being the dict so far and signatures[i] what generate_content_signature
\* gives for the i-th announcement; an exception ends the loop
RECURSIVE group_announcements_from(_, _, _, _)
group_announcements_from(announcements, signatures, i, groups) ==
    IF i > Len(announcements) THEN [raised |-> FALSE, groups |-> groups]
    ELSE IF signatures[i].raised THEN [raised |-> TRUE, groups |-> <<>>]
    ELSE group_announcements_from(announcements, signatures, i + 1,
             add_to_group(groups, signatures[i].signature, announcements[i]))

\* generate_content_signature(headline, scrip_code, ann_dt) as
\* group_announcements calls it, computed once for every announcement of the
\* pool
SignatureOfFetched ==
    [ann \in FetchedPool |->
        generate_content_signature(get_headline(ann), ann.scrip_code)]

\* group_announcements(announcements)
group_announcements(announcements) ==
    group_announcements_from(announcements,
        [i \in DOMAIN announcements |-> SignatureOfFetched[announcements[i]]], 1, <<>>)

\* ann_dt.timestamp()
timestamp(ann_dt) == 1741996800 + 3600 * ann_dt

\* announcement_priority(ann): (has_pdf, earlier, headline_length)
announcement_priority(ann) ==
    <<IF ann.pdf_name # "" THEN 1 ELSE 0, 0 - timestamp(ann.ann_dt),
      Len(get_headline(ann)[1])>>

\* a < b for tuples of three numbers
TupleLess(a, b) ==
    \/ a[1] < b[1]
    \/ a[1] = b[1] /\ a[2] < b[2]
    \/ a[1] = b[1] /\ a[2] = b[2] /\ a[3] < b[3]

\* select_best_announcement_from_group returning the first of the group
select_best_announcement_from_group_first(group) == group[1]

\* select_best_announcement_from_group(group) for a group that is not empty:
\* sorted(group, key=announcement_priority, reverse=True)[0]; the sort is
\* stable, so of several announcements of the highest priority the first of
\* the group is returned
select_best_announcement_from_group(group) ==
    IF Len(group) = 1 THEN group[1]
    ELSE LET highest == {i \in DOMAIN group :
                            \A j \in DOMAIN group :
                                ~TupleLess(announcement_priority(group[i]),
                                           announcement_priority(group[j]))}
         IN  group[CHOOSE i \in highest : \A j \in highest : i <= j]

\* grouped_announcements: the best announcement of every group, in the order
\* of the groups
grouped_announcements(groups) ==
    [i \in DOMAIN groups |-> select_best_announcement_from_group(groups[i].group)]

InitGrouping ==
    /\ InitTrackerVars
    /\ InitDedupVars({}, {})
    /\ InitWorkerVars
    /\ InitRunVars
    /\ InitSendVars
    /\ InitQueryVars
    /\ content_signature = [pc |-> "idle"]
    /\ \E n \in 1..MaxBatch : \E batch \in Batches(n) :
          grouping = [pc |-> "call", user_announcements |-> batch]

\* the smart grouping of the endpoint: the batch of a user is replaced by the
\* best announcement of each of its groups, or the exception of the grouping
\* leaves for the handler of the user loop
GroupAnnouncements ==
    /\ grouping.pc = "call"
    /\ LET ret == group_announcements(grouping.user_announcements)
       IN  grouping' =
               [pc |-> "done", user_announcements |-> grouping.user_announcements,
                raised |-> ret.raised, groups |-> ret.groups,
                grouped_announcements |-> grouped_announcements(ret.groups)]
    /\ UNCHANGED <<trackerVars, dedupVars, workerVars, runVars, content_signature,
                   sendVars, queryVars>>

NextGrouping == GroupAnnouncements

GroupingSpec == InitGrouping /\ [][NextGrouping]_vars

\* C24: in the end-to-end scenario the two board-meeting headlines get the
\* signature of the meeting date "15-03-2025" and form one group, the result
\* headline forms a second group, and two announcements are left.
C24_ScenarioTwoRepresentatives ==
    (grouping.pc = "done" /\ grouping.user_announcements = ScenarioBatch) =>
        /\ ~grouping.raised
        /\ Len(grouping.groups) = 2
        /\ grouping.groups[1].signature = "board_meeting_500325_15-03-2025"
        /\ grouping.groups[1].group = <<G_meeting_words, G_meeting_digits>>
        /\ grouping.groups[2].group = <<G_q4>>
        /\ Len(grouping.grouped_announcements) = 2

\* the dates a list of tokens names
DateSet(tokens) == {DateOf(tokens[i]) : i \in DOMAIN tokens}

\* one list of tokens for each set of dates
TokensOfDateSet(dates) == CHOOSE tokens \in TokenSeqs : DateSet(tokens) = dates

\* the signature the financial headlines of an instrument get for a set of dates
SignatureOfDateSet(dates, scrip_code) ==
    generate_content_signature(
        <<FinancialHeadline("Audited results for ", TokensOfDateSet(dates))>>, scrip_code)

\* C25: the signature of a financial headline is a function of the instrument
\* and of the set of dates it names: it is the same whatever the order of the
\* dates, their repetitions, their ordinal suffixes and the other words.
C25_SignatureOfDateSet ==
    LET c == content_signature
    IN  (c.pc = "done" /\ c.source # <<>>) =>
            /\ ~c.ret.raised
            /\ c.ret = SignatureOfDateSet(DateSet(c.source[1].tokens), c.scrip_code)

\* a headline with a date repeated with and without its suffix and the dates
\* out of order got the signature of the sorted set of its two dates
C25_Witness ==
    /\ content_signature.pc = "done"
    /\ content_signature.source # <<>>
    /\ content_signature.source[1].tokens =
           <<"22nd August 2025", "1 March 2025", "22 August 2025">>
    /\ content_signature.scrip_code = "500325"
    /\ content_signature.ret = Returned("financial_500325_1 march 2025_22 augu 2025")

\* the signatures of the headlines that are not empty
NonEmptySignatures(c) ==
    {generate_content_signature(<<FinancialHeadline(phrase, tokens)>>, c) :
        phrase \in FinancialPhrases, tokens \in TokenSeqs}
    \cup {generate_content_signature(h, c) : h \in OtherHeadlines \ {<<>>, <<"">>}}

\* C26: generate_content_signature raises for no headline; for an empty or
\* missing headline it gives "empty_<instrument>", which no headline of the
\* instrument that is not empty gets.
C26_NeverFails ==
    LET c == content_signature
    IN  c.pc = "done" =>
            /\ ~c.ret.raised
            /\ c.headline \in {<<>>, <<"">>} =>
                  /\ c.ret.signature = "empty_" \o c.scrip_code
                  /\ c.ret \notin NonEmptySignatures(c.scrip_code)

\* a outranks b: a has a document and b has none; or they are tied on that
\* and a is the earlier; or they are tied on that too and the headline of a
\* is the longer
Outranks(a, b) ==
    LET doc(x) == x.pdf_name # ""
    IN  \/ doc(a) /\ ~doc(b)
        \/ doc(a) = doc(b) /\ a.ann_dt < b.ann_dt
        \/ doc(a) = doc(b) /\ a.ann_dt = b.ann_dt
              /\ Len(get_headline(a)[1]) > Len(get_headline(b)[1])

\* C27: the announcement chosen for a group is a member of the group that no
\* member outranks, and the only member of a group of one.
C27_RepresentativeIsMaximum ==
    (grouping.pc = "done" /\ ~grouping.raised) =>
        /\ Len(grouping.grouped_announcements) = Len(grouping.groups)
        /\ \A i \in DOMAIN grouping.groups :
              LET group == grouping.groups[i].group
                  best == grouping.grouped_announcements[i]
              IN  /\ best \in Range(group)
                  /\ \A j \in DOMAIN group : ~Outranks(group[j], best)
                  /\ Len(group) = 1 => best = group[1]

\* a group of three: the last outranks the first by its time and the second
\* by its headline, and was chosen
C27_Witness ==
    /\ grouping.pc = "done"
    /\ ~grouping.raised
    /\ Len(grouping.groups) = 1
    /\ LET group == grouping.groups[1].group
       IN  /\ Len(group) = 3
           /\ \A j \in {1, 2} : Outranks(group[3], group[j])
           /\ group[1].ann_dt > group[3].ann_dt
           /\ group[2].ann_dt = group[3].ann_dt
           /\ group[2].pdf_name = group[3].pdf_name
           /\ group[3].pdf_name = "a.pdf"
           /\ grouping.grouped_announcements = <<group[3]>>

-----------------------------------------------------------------------------
(* The send block of one announcement: bse_announcements_enhanced *)

\* what requests.get of the document does: HTTP 200 with content, HTTP 200
\* without, another status, or an exception
GetResults == {"200", "200_empty", "404", "raised"}

\* what should_run_ai_analysis does
FilterResults == {"true", "false", "raised"}

\* what analyze_pdf_bytes_with_gemini does: a result, None, or an exception
AnalysisResults == {"result", "none", "raised"}

\* one call of the send block to the outside
Call(step, to, result) == [step |-> step, to |-> to, result |-> result]

\* the first call of a loop over the recipients that raises, or the last one
LastPost(results) ==
    IF \E i \in DOMAIN results : results[i] = "raised"
    THEN CHOOSE i \in DOMAIN results :
             results[i] = "raised" /\ \A j \in 1..(i - 1) : results[j] # "raised"
    ELSE Len(results)

\* a loop over the recipients posting to the bot API: the calls made, up to
\* the first one that raises
posts(step, results) ==
    [i \in 1..LastPost(results) |-> Call(step, Recipients[i], results[i])]

raises(calls) == \E i \in DOMAIN calls : calls[i].result = "raised"

\* 2. the document: fetched, then posted to each recipient; its own handler
\* catches what raises in it
send_pdf(pdf_name, env) ==
    IF pdf_name = "" THEN <<>>
    ELSE <<Call("get_pdf", pdf_name, env.pdf_get)>>
         \o (IF env.pdf_get = "200" THEN posts("sendDocument", env.pdf_results) ELSE <<>>)

\* 3. the AI analysis: the filter, the document fetched again, the analysis,
\* the message posted to each recipient; its own handler catches what raises
send_ai(pdf_name, ai_enabled, env) ==
    IF pdf_name = "" \/ ~ai_enabled THEN <<>>
    ELSE <<Call("should_run_ai_analysis", pdf_name, env.should_analyze)>>
         \o (IF env.should_analyze # "true" THEN <<>>
             ELSE <<Call("get_pdf_ai", pdf_name, env.ai_get)>>
                  \o (IF env.ai_get # "200" THEN <<>>
                      ELSE <<Call("analyze_pdf", pdf_name, env.analysis)>>
                           \o (IF env.analysis # "result" THEN <<>>
                               ELSE posts("sendMessage_ai", env.ai_results))))

\* the send block: 1. the text to each recipient, 2. the document, 3. the AI
\* analysis.  What raises in the text loop leaves the block for the handler
\* at its end.
send_block(pdf_name, ai_enabled, env) ==
    LET text == posts("sendMessage", env.text_results)
    IN  [calls |-> IF raises(text) THEN text
                   ELSE text \o send_pdf(pdf_name, env) \o send_ai(pdf_name, ai_enabled, env),
         notifications_sent |-> send_text(env.text_results, 1).notifications_sent]

\* what the outside does to the calls of one send block
SendEnvs ==
    [text_results : [DOMAIN Recipients -> SendResults], pdf_get : GetResults,
     pdf_results : [DOMAIN Recipients -> SendResults], should_analyze : FilterResults,
     ai_get : GetResults, analysis : AnalysisResults,
     ai_results : [DOMAIN Recipients -> SendResults]]

\* an announcement with or without a document, ENABLE_AI_ANALYSIS set or not
InitSend ==
    /\ InitTrackerVars
    /\ InitDedupVars({}, {})
    /\ InitWorkerVars
    /\ InitRunVars
    /\ InitGroupingVars
    /\ InitQueryVars
    /\ \E pdf_name \in {"", "a.pdf"}, ai_enabled \in BOOLEAN :
          send = [pc |-> "call", pdf_name |-> pdf_name, ai_enabled |-> ai_enabled]

SendBlock(env) ==
    /\ send.pc = "call"
    /\ LET ret == send_block(send.pdf_name, send.ai_enabled, env)
       IN  send' = [pc |-> "done", pdf_name |-> send.pdf_name,
                    ai_enabled |-> send.ai_enabled, calls |-> ret.calls,
                    notifications_sent |-> ret.notifications_sent]
    /\ UNCHANGED <<trackerVars, dedupVars, workerVars, runVars, groupingVars, queryVars>>

NextSend == \E env \in SendEnvs : SendBlock(env)

SendSpec == InitSend /\ [][NextSend]_vars

\* the steps the calls of a send block belong to
StepsOf(calls) == {calls[i].step : i \in DOMAIN calls}

\* the text send to a recipient raised
TextSendRaised ==
    /\ send.pc = "done"
    /\ \E i \in DOMAIN send.calls :
          send.calls[i].step = "sendMessage" /\ send.calls[i].result = "raised"

\* C31: when the text send to a recipient raises, the text send is still
\* attempted for every recipient, and so are the document step and the AI
\* step of an announcement that has them.
C31_TextFailureIsSoft ==
    TextSendRaised =>
        /\ \A r \in Range(Recipients) :
              \E i \in DOMAIN send.calls :
                  send.calls[i].step = "sendMessage" /\ send.calls[i].to = r
        /\ send.pdf_name # "" => "get_pdf" \in StepsOf(send.calls)
        /\ (send.pdf_name # "" /\ send.ai_enabled) =>
               "should_run_ai_analysis" \in StepsOf(send.calls)

\* the headline contains one of the terms, in whatever case
Mentions(headline, terms) ==
    \E i \in DOMAIN terms : Contains(lower(headline), terms[i])

\* the call has returned for a headline that is not empty
SignedHeadline ==
    /\ content_signature.pc = "done"
    /\ content_signature.headline \notin {<<>>, <<"">>}

\* the call gave a signature of the family for the instrument
InFamily(family) ==
    /\ ~content_signature.ret.raised
    /\ StartsWith(content_signature.ret.signature,
                  family \o "_" \o content_signature.scrip_code \o "_")

\* C32: the first family that matches decides: a headline with a
\* financial-period term gets a financial signature, "board meeting" in it or
\* not; a headline with "board meeting" and no financial-period term gets a
\* board-meeting signature, an award term in it or not; the default signature
\* is given to headlines of no family only.
C32_FirstFamilyWins ==
    SignedHeadline =>
        LET h == content_signature.headline[1]
        IN  /\ Mentions(h, financial_periods) => InFamily("financial")
            /\ (~Mentions(h, financial_periods) /\ Mentions(h, <<"board meeting">>)) =>
                   InFamily("board_meeting")
            /\ InFamily("other") =>
                   ~Mentions(h, financial_periods \o <<"board meeting">> \o contract_terms)

\* a headline with "board meeting" and with "quarterly" got the financial
\* signature of its date
C32_Witness ==
    /\ SignedHeadline
    /\ content_signature.headline[1] =
           "Board Meeting on 15th March 2025 for quarterly results"
    /\ content_signature.scrip_code = "500325"
    /\ content_signature.ret = Returned("financial_500325_15 march 2025")

\* a headline with "board meeting" and with "contract" got the board-meeting
\* signature of its date
C32_WitnessMeetingBeforeAward ==
    /\ SignedHeadline
    /\ content_signature.headline[1] =
           "Board Meeting on 15th March 2025 to approve contract"
    /\ content_signature.ret.signature = "board_meeting_" \o content_signature.scrip_code
                                             \o "_15 march 2025"

\* C33: a headline with an award term that is of neither the financial nor
\* the board-meeting family gets a contract-award signature of the instrument.
C33_ContractSignature ==
    (/\ SignedHeadline
     /\ Mentions(content_signature.headline[1], contract_terms)
     /\ ~Mentions(content_signature.headline[1], financial_periods \o <<"board meeting">>))
    => InFamily("contract")

-----------------------------------------------------------------------------
(* Passes of a single worker, one after another, with storage working *)

\* PassOrders, computed once for each feed
LedgerOrders == [feed \in LedgerFeeds |-> PassOrders(feed)]

\* the moments of the passes, in seconds.
\* Burst: 2 minutes and 5 minutes 40 seconds after the first pass.
\* Cooling: 2 hours, 7 hours and 169 hours after the first pass.
LedgerSchedule ==
    [feed \in LedgerFeeds |->
        IF feed = Feed_burst THEN {60, 180, 400} ELSE {60, 7260, 25260, 608460}]

InitLedger ==
    /\ InitTrackerVars
    /\ InitExtraVars
    /\ \E feed \in LedgerFeeds : InitDedupVars(feed, LedgerSchedule[feed])

\* the table holds no more rows than the passes of the run have announcements
\* to process
NextLedger ==
    \/ StartPassIn(LedgerOrders)
    \/ CheckAnnouncement({})
    \/ DuplicatePrevented
    \/ \E results \in [DOMAIN Recipients -> SendResults] : SendNotifications(results)
    \/ MarkAsSentWithin(TRUE, Cardinality(monitored) * Cardinality(pass_times))
    \/ NextAnnouncement

LedgerSpec == InitLedger /\ [][NextLedger]_vars

\* the records of the user and instrument of record i created in the
\* seconds that follow its creation
RecordsWithin(i, seconds) ==
    {j \in DOMAIN seen_announcements :
        /\ seen_announcements[j].user_id = seen_announcements[i].user_id
        /\ seen_announcements[j].scrip_code = seen_announcements[i].scrip_code
        /\ seen_announcements[j].created_at >= seen_announcements[i].created_at
        /\ seen_announcements[j].created_at <= seen_announcements[i].created_at + seconds}

\* C34: the ledger never holds more than 3 delivery records of one user and
\* instrument created within 5 minutes.
C34_AtMostThreeInFiveMinutes ==
    \A i \in DOMAIN seen_announcements : Cardinality(RecordsWithin(i, 5 * 60)) <= 3

\* three records of the user and instrument were created in the pass, and
\* the check of the fourth announcement answered with the burst limit
C34_Witness ==
    /\ chk # <<>>
    /\ chk[1].ret.already_sent
    /\ chk[1].ret.reason = "rate_limiting_protection"
    /\ \E i \in DOMAIN seen_announcements :
          /\ Cardinality(RecordsWithin(i, 5 * 60)) = 3
          /\ seen_announcements[i].user_id = chk[1].user_id
          /\ seen_announcements[i].scrip_code = chk[1].ann.scrip_code

\* the headlines that name a result, as the spec lists them
StatedResultRelated ==
    [headline \in Headlines |->
        \E term \in {"financial results", "quarter ended", "half year ended", "year ended",
                     "quarterly results", "unaudited results", "audited results",
                     "board meeting", "profit", "loss", "revenue", "dividend"} :
            Contains(lower(headline), term)]

\* two records of one user and instrument created less than so many hours apart
CreatedWithinHours(i, j, hours) ==
    /\ i < j
    /\ seen_announcements[j].user_id = seen_announcements[i].user_id
    /\ seen_announcements[j].scrip_code = seen_announcements[i].scrip_code
    /\ seen_announcements[j].created_at - seen_announcements[i].created_at < hours * 3600

\* C35: the ledger never holds two records with result-related headlines of
\* one user and instrument created less than 3 hours apart, nor two with
\* financial-period headlines created less than 168 hours apart.
C35_CoolingBetweenRecords ==
    \A i, j \in DOMAIN seen_announcements :
        /\ CreatedWithinHours(i, j, 3) =>
              ~(/\ StatedResultRelated[seen_announcements[i].headline]
                /\ StatedResultRelated[seen_announcements[j].headline])
        /\ CreatedWithinHours(i, j, 168) =>
              ~(/\ StatedCoolingHours[seen_announcements[i].headline] = 168
                /\ StatedCoolingHours[seen_announcements[j].headline] = 168)

\* the ledger holds two records with financial-period headlines of one user
\* and instrument, and the check of the second financial result was answered
\* with the cooling period of a week before
C35_Witness ==
    /\ \E i, j \in DOMAIN seen_announcements :
          /\ i < j
          /\ seen_announcements[i].user_id = seen_announcements[j].user_id
          /\ seen_announcements[i].scrip_code = seen_announcements[j].scrip_code
          /\ StatedCoolingHours[seen_announcements[i].headline] = 168
          /\ StatedResultRelated[seen_announcements[j].headline]
          /\ seen_announcements[j].created_at - seen_announcements[i].created_at >= 3 * 3600
    /\ chk # <<>>
    /\ chk[1].ret.reason = "cooling_period_cooling_period_financial_results_week"
-----------------------------------------------------------------------------
(* MultiThresholdAlertTracker: calls for several instruments, thresholds and
   directions within one hour of one day *)

\* the calls made, every record of an alert reaching the table: three changes
\* of one user and instrument, and +12.0 of another user and of another
\* instrument
LadderCalls ==
    ({"u1"} \X {"500325"} \X LadderChanges)
        \cup {<<"u2", "500325", 120>>, <<"u1", "532540", 120>>}

NextLadder ==
    \/ \E c \in LadderCalls, db_ok \in BOOLEAN : ShouldSendAlert(c[1], c[2], c[3], db_ok)
    \/ MarkAlertSent(TRUE)

InitLadder == InitTrackerVars /\ InitDedupVars({}, {}) /\ InitExtraVars

LadderSpec == InitLadder /\ [][NextLadder]_vars

\* the alert type the ladder 5, 10, 15, 20 gives a change that reaches it
StatedAlertType(pct) ==
    LET size == IF pct < 0 THEN -pct ELSE pct
    IN  "price_" \o (IF pct > 0 THEN "up" ELSE "down") \o "_"
            \o (IF size >= 200 THEN "20" ELSE IF size >= 150 THEN "15"
                ELSE IF size >= 100 THEN "10" ELSE "5") \o "pct"

\* the alert type is recorded for (user, instrument) today, in the cache or
\* in the rows a working persistence check reads
Recorded(user_id, bse_code, alert_type, db_ok) ==
    LET key == user_id \o "_" \o bse_code \o "_" \o isoformat(clock)
    IN  \/ key \in DOMAIN daily_tracker /\ alert_type \in daily_tracker[key]
        \/ /\ db_ok
           /\ CopiesIn(AlertRow(user_id, bse_code, isoformat(clock), alert_type),
                       daily_alerts_sent) > 0

\* the pair recording an alert is made for
PendingPair == <<pending[1].user_id, pending[1].bse_code>>

\* C36: within a day and without eviction, a should_send_alert call for a
\* change that reaches the ladder answers should-send exactly when its own
\* alert type is not recorded for its own (user, instrument), whatever other
\* thresholds, directions, users or instruments are recorded; and recording an
\* alert leaves the answer for every other (user, instrument) as it was.
C36_ThrottledIndependently ==
    [][/\ \A c \in LadderCalls, db_ok \in BOOLEAN :
             ShouldSendAlert(c[1], c[2], c[3], db_ok)
             => (last_call'[1].ret.should_send
                    <=> ~Recorded(c[1], c[2], StatedAlertType(c[3]), db_ok))
       /\ MarkAlertSent(TRUE)
             => \A c \in LadderCalls, db_ok \in BOOLEAN :
                   <<c[1], c[2]>> # PendingPair
                   => should_send_alert(daily_tracker', daily_alerts_sent', c[1], c[2],
                          c[3], isoformat(clock), db_ok).should_send
                      = should_send_alert(daily_tracker, daily_alerts_sent, c[1], c[2],
                          c[3], isoformat(clock), db_ok).should_send]_vars

\* the last call of (user, instrument, change, answer) made while the cache
\* holds alert_type for (holder, instrument)
AnsweredSendWhile(user_id, pct, threshold, holder, alert_type) ==
    /\ last_call # <<>>
    /\ last_call[1].user_id = user_id
    /\ last_call[1].bse_code = "500325"
    /\ last_call[1].price_change_pct = pct
    /\ last_call[1].ret.should_send
    /\ last_call[1].ret.threshold = <<threshold>>
    /\ Recorded(holder, "500325", alert_type, FALSE)

\* +7.0 answered should-send with threshold 5 after the up-10 alert of the
\* same user and instrument was recorded
C36_Witness == AnsweredSendWhile("u1", 70, 50, "u1", "price_up_10pct")

\* -12.0 answered should-send after the up-10 alert was recorded
C36_WitnessOppositeDirection ==
    AnsweredSendWhile("u1", -120, 100, "u1", "price_up_10pct")

\* +12.0 of another user answered should-send after the up-10 alert of the
\* first was recorded
C36_WitnessOtherUser ==
    /\ AnsweredSendWhile("u2", 120, 100, "u1", "price_up_10pct")
    /\ ~Recorded("u2", "500325", "price_up_10pct", TRUE)
-----------------------------------------------------------------------------
(* MultiThresholdAlertTracker: the queries of the cache *)

\* the entries get_tracking_stats and get_today_alerts_for_user take for
\* entries of the current day: the date they read back from the key is
\* parts[-2] + '_' + parts[-1]
today_keys(tracker, current_date) ==
    {key \in DOMAIN tracker :
        Len(SplitKey[key]) >= 3 /\ key_date(key) = current_date}

RECURSIVE SumOver(_, _)
\* the sum of Cardinality(f[key]) over the keys
SumOver(f, keys) ==
    IF keys = {} THEN 0
    ELSE LET key == CHOOSE k \in keys : TRUE
         IN  Cardinality(f[key]) + SumOver(f, keys \ {key})

\* int(alert_type.split('_')[-1].replace('pct', '')) is the threshold t
names_threshold(alert_type, t) ==
    LET parts == Split(alert_type, "_")
    IN  parts[Len(parts)] = IntThreshold[t] \o "pct"

\* get_tracking_stats
get_tracking_stats(tracker, current_date, last) ==
    LET active == today_keys(tracker, current_date)
    IN  [active_alerts_today |-> SumOver(tracker, active),
         threshold_counts |->
             [t \in Range(thresholds) |->
                 SumOver([key \in active |->
                            {a \in tracker[key] : names_threshold(a, t)}], active)],
         total_tracking_keys |-> Cardinality(DOMAIN tracker),
         thresholds_configured |-> thresholds,
         last_cleanup |-> last]

\* clear_user_tracking
clear_user_tracking(tracker, user_id) ==
    [key \in {k \in DOMAIN tracker : ~StartsWith(k, user_id \o "_")} |-> tracker[key]]

\* get_today_alerts_for_user; bse_code is <<>> for None; list(set(...)) has
\* no order of its own and is kept as a set
get_today_alerts_for_user(tracker, user_id, bse_code, current_date) ==
    UNION {tracker[key] :
            key \in {k \in today_keys(tracker, current_date) :
                        /\ SplitKey[k][1] = user_id
                        /\ bse_code = <<>> \/ SplitKey[k][2] = bse_code[1]}}

GetTrackingStats ==
    /\ last_query' = <<[op |-> "get_tracking_stats",
                        ret |-> get_tracking_stats(daily_tracker, isoformat(clock),
                                                   last_cleanup)]>>
    /\ UNCHANGED <<trackerVars, dedupVars, workerVars, runVars, groupingVars, sendVars>>

GetTodayAlertsForUser(user_id, bse_code) ==
    /\ last_query' = <<[op |-> "get_today_alerts_for_user", user_id |-> user_id,
                        bse_code |-> bse_code,
                        ret |-> get_today_alerts_for_user(daily_tracker, user_id,
                                                          bse_code, isoformat(clock))]>>
    /\ UNCHANGED <<trackerVars, dedupVars, workerVars, runVars, groupingVars, sendVars>>

ClearUserTracking(user_id) ==
    /\ daily_tracker' = clear_user_tracking(daily_tracker, user_id)
    /\ between' = between \cup {"clear_user_tracking"}
    /\ last_query' = <<>>
    /\ UNCHANGED <<last_cleanup, clock, daily_alerts_sent, last_call, pending,
                   protocol_ok, fired, refired, classifyVars, threads, dedupVars,
                   workerVars, runVars, groupingVars, sendVars>>

\* the calls of should_send_alert made between the queries
QueryCalls == {<<"u1", "500325", 120>>, <<"u1", "532540", -120>>, <<"u2", "500325", 120>>}

NextQuery ==
    \/ \E c \in QueryCalls : ShouldSendAlert(c[1], c[2], c[3], TRUE)
    \/ MarkAlertSent(TRUE)
    \/ GetTrackingStats
    \/ \E user_id \in UserIds, bse_code \in {<<>>} \cup {<<b>> : b \in LadderCodes} :
          GetTodayAlertsForUser(user_id, bse_code)
    \/ \E user_id \in UserIds : ClearUserTracking(user_id)

QuerySpec == InitLadder /\ [][NextQuery]_vars

\* the alert types the cache holds for (user, instrument) today; every
\* instrument when bse_code is <<>>
RecordedToday(user_id, bse_code) ==
    UNION {daily_tracker[key] :
            key \in {user_id \o "_" \o b \o "_" \o isoformat(clock) :
                        b \in IF bse_code = <<>> THEN LadderCodes ELSE {bse_code[1]}}
                    \cap DOMAIN daily_tracker}

\* the number of alert types the cache holds for today
AllRecordedToday ==
    Cardinality({<<user_id, b, a>> \in UserIds \X LadderCodes \X
                    {"price_up_10pct", "price_down_10pct"} :
                    a \in RecordedToday(user_id, <<b>>)})

\* C37 as stated: a query made while the cache holds the alert types recorded
\* today returns them: get_today_alerts_for_user(user) and
\* get_today_alerts_for_user(user, instrument) contain every alert type
\* recorded for the user (and instrument) today, and get_tracking_stats counts
\* every recorded alert type in active_alerts_today.
C37_QueriesShowRecorded ==
    [][/\ \A user_id \in UserIds, bse_code \in {<<>>} \cup {<<b>> : b \in LadderCodes} :
             GetTodayAlertsForUser(user_id, bse_code)
             => RecordedToday(user_id, bse_code) \subseteq last_query'[1].ret
       /\ GetTrackingStats
             => last_query'[1].ret.active_alerts_today = AllRecordedToday]_vars

\* the answers the code gives: nothing recorded is ever shown
C37_QueriesShowNothing ==
    last_query # <<>>
    => \/ /\ last_query[1].op = "get_today_alerts_for_user"
          /\ last_query[1].ret = {}
       \/ /\ last_query[1].op = "get_tracking_stats"
          /\ last_query[1].ret.active_alerts_today = 0

\* a query of the user and instrument whose alert type is in the cache
C37_QueriedWhileRecorded ==
    /\ last_query # <<>>
    /\ last_query[1].op = "get_today_alerts_for_user"
    /\ last_query[1].user_id = "u1"
    /\ last_query[1].bse_code = <<"500325">>
    /\ "price_up_10pct" \in RecordedToday("u1", <<"500325">>)
-----------------------------------------------------------------------------
(* Claims about the grouping as a partition of the batch *)

\* the number of places of the sequence s that hold x
Occurrences(s, x) == Cardinality({i \in DOMAIN s : s[i] = x})

\* the groups are a partition of the batch: an announcement is in one group
\* only, as often as it is in the batch, and nothing else is in a group
PartitionOf(batch, groups) ==
    /\ \A ann \in Range(batch) :
          \E g \in DOMAIN groups :
              /\ Occurrences(groups[g].group, ann) = Occurrences(batch, ann)
              /\ \A h \in DOMAIN groups \ {g} : Occurrences(groups[h].group, ann) = 0
    /\ \A g \in DOMAIN groups : Range(groups[g].group) \subseteq Range(batch)

\* the members of a group have the signature of the group, and no two groups
\* have the same signature
GroupedBySignature(groups) ==
    /\ \A g \in DOMAIN groups : \A j \in DOMAIN groups[g].group :
          /\ ~SignatureOfFetched[groups[g].group[j]].raised
          /\ SignatureOfFetched[groups[g].group[j]].signature = groups[g].signature
    /\ \A g, h \in DOMAIN groups :
          groups[g].signature = groups[h].signature => g = h

\* one announcement is processed for each signature of the batch, a member of
\* the group of that signature
OnePerSignature(batch, groups, chosen) ==
    /\ Len(chosen) = Cardinality({SignatureOfFetched[ann] : ann \in Range(batch)})
    /\ Len(chosen) = Len(groups)
    /\ \A g \in DOMAIN groups : chosen[g] \in Range(groups[g].group)

PartitionedBySignature ==
    /\ PartitionOf(grouping.user_announcements, grouping.groups)
    /\ GroupedBySignature(grouping.groups)
    /\ OnePerSignature(grouping.user_announcements, grouping.groups,
                       grouping.grouped_announcements)

\* C38 as stated: after the grouping of a batch, every announcement of the
\* batch is in exactly one group, the members of a group have one signature,
\* different groups have different signatures, and one announcement is
\* processed for each signature, a member of its group.
C38_PartitionsBatch ==
    grouping.pc = "done" => ~grouping.raised /\ PartitionedBySignature

\* the same for the batches group_announcements returns for
C38_PartitionsWhenReturned ==
    (grouping.pc = "done" /\ ~grouping.raised) => PartitionedBySignature

\* a batch of three announcements grouped into two groups
C38_ReturnedTwoGroups ==
    /\ grouping.pc = "done"
    /\ ~grouping.raised
    /\ Len(grouping.user_announcements) = 3
    /\ Len(grouping.groups) = 2
=============================================================================
